---- MODULE Spec2Model ----
(***************************************************************************)
(* Verification model of the triforge_back generation backend: the         *)
(* per-user conversation memory (MemoryService), the content finders and   *)
(* response cleaners (utils/helpers.py), and the route handlers that       *)
(* resolve input, invoke a chain and commit turns to memory.               *)
(*                                                                         *)
(* Texts are sequences of one-character strings, so the cleaners and the   *)
(* shape tests are computed on characters, as the Python code does.        *)
(*                                                                         *)
(* Specifications:                                                         *)
(*   Spec         the diagram, stories-modification, Jira upload,          *)
(*                refinement and project routes and logout, in runs of up  *)
(*                to MaxRequests requests                                  *)
(*   SpecSession  the diagram routes and logout, in runs of up to          *)
(*                MaxSessionRequests requests                              *)
(*   SpecClean    the response cleaners applied to assembled completions   *)
(*   SpecFind     the content finders applied to assembled memories        *)
(*   SpecCode     generate_code of llm.py, one request against an          *)
(*                assembled memory                                         *)
(*   SpecProject  parse_technologies and create_project_structure applied  *)
(*                to assembled replies and file lists                      *)
(*   SpecContext  the context gatherer applied to assembled memories       *)
(*   SpecStories  the stories route with its requirement validation        *)
(*   SpecRegistry the project registry with the structure, download and    *)
(*                delete routes                                            *)
(***************************************************************************)
EXTENDS Integers, Sequences, FiniteSets, TLC

VARIABLES
    shared_memories,     \* MemoryService.shared_memories: user id -> memory object
    sessions,            \* the memory objects ever created, by object id
    generated_projects,  \* ProjectGenerationService.generated_projects
    temp_files,          \* ProjectGenerationService.temp_files: project id -> path
    zip_files,           \* the ZIP files on disk: path -> project id
    frames,              \* one frame (request, locals, outcome) per request
    running,             \* the request the event loop is executing, 0 if none
    fn_op,      \* pure-function harness: which helper has been applied
    fn_in,      \* pure-function harness: the helper's input
    fn_out,     \* pure-function harness: the helper's result
    fn_out2     \* pure-function harness: the result of applying it again

zipvars == <<temp_files, zip_files>>

mvars == <<shared_memories, sessions, generated_projects, temp_files, zip_files,
           frames, running>>

fnvars == <<fn_op, fn_in, fn_out, fn_out2>>

vars == <<shared_memories, sessions, generated_projects, temp_files, zip_files,
          frames, running, fn_op, fn_in, fn_out, fn_out2>>

(***************************************************************************)
(* Bounds of the model.                                                    *)
(***************************************************************************)
MaxPieces == 5

MaxFindTurns == 3

MaxRequests == 2

MaxSessionRequests == 3

MaxEntries == 3

MaxFiles == 3

MaxContextTurns == 3

MaxStoriesRequests == 2

MaxRegistryRequests == 4

(***************************************************************************)
(* Text primitives: Python str.strip / startswith / endswith / split /     *)
(* join on character sequences.                                            *)
(***************************************************************************)
\* Python None where a text is expected: no text has a four-character element
None == <<"None">>

Whitespace == {" ", "\n", "\t"}

Min(S) == CHOOSE x \in S : \A y \in S : x <= y

Max(S) == CHOOSE x \in S : \A y \in S : x >= y

\* str.strip(): the text from its first to its last character that is no
\* whitespace
Strip(s) ==
    IF \A i \in 1..Len(s) : s[i] \in Whitespace THEN <<>>
    ELSE LET n == Len(s)
             first == CHOOSE i \in 1..n :
                        s[i] \notin Whitespace /\ \A j \in 1..(i - 1) : s[j] \in Whitespace
             last == CHOOSE i \in 1..n :
                        s[i] \notin Whitespace /\ \A j \in (i + 1)..n : s[j] \in Whitespace
         IN  SubSeq(s, first, last)

StartsWith(s, p) == Len(p) <= Len(s) /\ SubSeq(s, 1, Len(p)) = p

EndsWith(s, p) == Len(p) <= Len(s) /\ SubSeq(s, Len(s) - Len(p) + 1, Len(s)) = p

DropFirst(s, n) == SubSeq(s, n + 1, Len(s))

DropLast(s, n) == SubSeq(s, 1, Len(s) - n)

NewlineIdx(s) == {i \in 1..Len(s) : s[i] = "\n"}

RECURSIVE Split(_)
Split(s) ==
    IF NewlineIdx(s) = {} THEN <<s>>
    ELSE <<SubSeq(s, 1, Min(NewlineIdx(s)) - 1)>>
             \o Split(DropFirst(s, Min(NewlineIdx(s))))

RECURSIVE Join(_)
Join(lines) ==
    IF Len(lines) = 0 THEN <<>>
    ELSE IF Len(lines) = 1 THEN lines[1]
    ELSE lines[1] \o <<"\n">> \o Join(Tail(lines))

RECURSIVE Concat(_)
Concat(parts) ==
    IF Len(parts) = 0 THEN <<>> ELSE parts[1] \o Concat(Tail(parts))

(***************************************************************************)
(* Literals of utils/helpers.py.                                           *)
(***************************************************************************)
\* the backquote character (the lexer accepts no backquote inside a string)
Backtick == "<backquote>"

Fence ==
    <<Backtick, Backtick, Backtick>>
FenceMermaid ==
    Fence \o <<"m","e","r","m","a","i","d">>

mermaid_prefixes_to_remove ==
    <<<<"H","e","r","e","'","s"," ","a"," ","M","e","r","m","a","i","d",".","j","s"," ","d","i","a","g","r","a","m",":">>, <<"H","e","r","e"," ","i","s"," ","t","h","e"," ","M","e","r","m","a","i","d",".","j","s"," ","d","i","a","g","r","a","m",":">>, <<"H","e","r","e","'","s"," ","t","h","e"," ","d","i","a","g","r","a","m",":">>, <<"M","e","r","m","a","i","d",".","j","s"," ","c","o","d","e",":">>, <<"D","i","a","g","r","a","m",":">>>>

\* language = <<>> stands for None or "" (both falsy in the f-string condition)
code_prefixes_to_remove(language) ==
    << IF language # <<>> THEN <<"H","e","r","e","'","s"," ","t","h","e"," ">> \o language \o <<" ","c","o","d","e",":">>
                          ELSE <<"H","e","r","e","'","s"," ","t","h","e"," ","c","o","d","e",":">>,
       IF language # <<>> THEN <<"H","e","r","e"," ","i","s"," ","t","h","e"," ">> \o language \o <<" ","c","o","d","e",":">>
                          ELSE <<"H","e","r","e"," ","i","s"," ","t","h","e"," ","c","o","d","e",":">>,
       <<"G","e","n","e","r","a","t","e","d"," ","C","o","d","e",":">>,
       <<"C","o","d","e",":">> >>

(***************************************************************************)
(* ResponseCleaner                                                         *)
(***************************************************************************)
\* for prefix in prefixes: if s.startswith(prefix): s = s[len(prefix):].strip()
RECURSIVE RemovePrefixes(_, _)
RemovePrefixes(s, prefixes) ==
    IF Len(prefixes) = 0 THEN s
    ELSE RemovePrefixes(
             IF StartsWith(s, Head(prefixes))
                 THEN Strip(DropFirst(s, Len(Head(prefixes))))
                 ELSE s,
             Tail(prefixes))

StripOpenFenceMermaid(s) ==
    IF StartsWith(s, FenceMermaid) THEN Strip(DropFirst(s, Len(FenceMermaid))) ELSE s

StripOpenFence(s) ==
    IF StartsWith(s, Fence) THEN Strip(DropFirst(s, 3)) ELSE s

StripCloseFence_kept(s) == s

StripCloseFence(s) ==
    IF EndsWith(s, Fence) THEN Strip(DropLast(s, 3)) ELSE s

clean_mermaid_response(response) ==
    RemovePrefixes(
        StripCloseFence(StripOpenFence(StripOpenFenceMermaid(Strip(response)))),
        mermaid_prefixes_to_remove)

StripCodeBlock(s) ==
    LET lines == Split(s) IN
    IF /\ Len(lines) > 1
       /\ StartsWith(Strip(lines[1]), Fence)
       /\ Strip(lines[Len(lines)]) = Fence
    THEN Strip(Join(SubSeq(lines, 2, Len(lines) - 1)))
    ELSE IF StartsWith(s, Fence) THEN Strip(DropFirst(s, 3))
    ELSE s

clean_code_response(response, language) ==
    RemovePrefixes(StripCodeBlock(Strip(response)), code_prefixes_to_remove(language))

(***************************************************************************)
(* ContentFinder: shape tests and newest-first scans of memory messages.   *)
(* A message is [type |-> "human" | "ai", content |-> text].               *)
(***************************************************************************)
HashHash ==
    <<"#","#">>
AsA ==
    <<"A","s"," ","a">>
StoryPointsLower ==
    <<"s","t","o","r","y"," ","p","o","i","n","t","s">>

DiagramKeywords ==
    {<<"g","r","a","p","h">>, <<"s","e","q","u","e","n","c","e","D","i","a","g","r","a","m">>, <<"c","l","a","s","s","D","i","a","g","r","a","m">>, <<"e","r","D","i","a","g","r","a","m">>, <<"s","t","a","t","e","D","i","a","g","r","a","m">>,
     <<"g","a","n","t","t">>, <<"j","o","u","r","n","e","y">>}

Uppers ==
    <<"A","B","C","D","E","F","G","H","I","J","K","L","M",
      "N","O","P","Q","R","S","T","U","V","W","X","Y","Z">>

Lowers ==
    <<"a","b","c","d","e","f","g","h","i","j","k","l","m",
      "n","o","p","q","r","s","t","u","v","w","x","y","z">>

\* str.lower()
Lower(s) ==
    [i \in 1..Len(s) |->
        IF \E k \in 1..Len(Uppers) : Uppers[k] = s[i]
            THEN Lowers[CHOOSE k \in 1..Len(Uppers) : Uppers[k] = s[i]]
            ELSE s[i]]

\* p in s
Contains(s, p) ==
    \E i \in 1..(Len(s) - Len(p) + 1) : SubSeq(s, i, i + Len(p) - 1) = p

\* re.search(r"##\s*As a\s*", s)
MatchesStoryHeading(s) ==
    \E i \in 1..Len(s) : \E j \in (i + 2)..Len(s) :
        /\ SubSeq(s, i, i + 1) = HashHash
        /\ \A k \in (i + 2)..(j - 1) : s[k] \in Whitespace
        /\ SubSeq(s, j, j + Len(AsA) - 1) = AsA

IsJiraStoriesShape(content) ==
    MatchesStoryHeading(content) \/ Contains(Lower(content), StoryPointsLower)

IsDiagramShape(content) ==
    \E kw \in DiagramKeywords : StartsWith(content, kw)

RECURSIVE find_jira_stories_in_memory(_)
find_jira_stories_in_memory(memory_messages) ==
    IF Len(memory_messages) = 0 THEN None
    ELSE LET msg == memory_messages[Len(memory_messages)] IN
         IF msg.type = "ai" /\ IsJiraStoriesShape(msg.content)
             THEN msg.content
             ELSE find_jira_stories_in_memory(DropLast(memory_messages, 1))

RECURSIVE find_diagram_in_memory_oldest_first(_)
find_diagram_in_memory_oldest_first(memory_messages) ==
    IF Len(memory_messages) = 0 THEN None
    ELSE LET msg == memory_messages[1] IN
         IF msg.type = "ai" /\ IsDiagramShape(Strip(msg.content))
             THEN Strip(msg.content)
             ELSE find_diagram_in_memory_oldest_first(Tail(memory_messages))

RECURSIVE find_diagram_in_memory(_)
find_diagram_in_memory(memory_messages) ==
    IF Len(memory_messages) = 0 THEN None
    ELSE LET msg == memory_messages[Len(memory_messages)] IN
         IF msg.type = "ai" /\ IsDiagramShape(Strip(msg.content))
             THEN Strip(msg.content)
             ELSE find_diagram_in_memory(DropLast(memory_messages, 1))

(***************************************************************************)
(* Texts: the literals of the route handlers, and the request texts and    *)
(* completions the model draws from.                                       *)
(***************************************************************************)
\* the double-quote character
DoubleQuote == "<quote>"

TFlow ==
    <<"f","l","o","w">>
CombinedQuoteEnd ==
    <<DoubleQuote,"\n">>

GraphBody ==
    <<"g","r","a","p","h"," ","T","D","\n","A","-","-",">","B">>
GanttBody ==
    <<"g","a","n","t","t">>
TagPy ==
    <<"p","y">>
StoriesText ==
    <<"#","#"," ","A","s"," ","a"," ","u","s","e","r","\n","S","t","o","r","y"," ","P","o","i","n","t","s",":"," ","3">>
SeqDiagramPadded ==
    <<" ","s","e","q","u","e","n","c","e","D","i","a","g","r","a","m","\n","A","-",">",">","B",":"," ","h","i","\n">>

generate_diagram_text ==
    [
     combined1 |->
        <<"J","i","r","a"," ","U","s","e","r"," ","S","t","o","r","i","e","s",":","\n">>,
     combined2 |->
        <<"\n","\n","D","i","a","g","r","a","m"," ","T","y","p","e",":"," ">>,
     label_pre |->
        <<"G","e","n","e","r","a","t","e"," ","a"," ">>,
     label_post1 |->
        <<" ","d","i","a","g","r","a","m"," ","f","o","r"," ","t","h","e","s","e"," ","J","i","r","a"," ","s","t","o","r","i","e","s">>,
     label_post2 |->
        <<" ","d","i","a","g","r","a","m">>,
     placeholder |->
        <<"P","r","o","c","e","s","s","i","n","g"," ","d","i","a","g","r","a","m"," ","g","e","n","e","r","a","t","i","o","n"," ","r","e","q","u","e","s","t",".",".",".">>
    ]

modify_diagram_text ==
    [
     combined1 |->
        <<"E","x","i","s","t","i","n","g"," ","M","e","r","m","a","i","d",".","j","s"," ","D","i","a","g","r","a","m",":","\n">>,
     combined2 |->
        <<"\n","\n","M","o","d","i","f","i","c","a","t","i","o","n"," ","R","e","q","u","e","s","t",":","\n",DoubleQuote>>,
     label1 |->
        <<"R","e","q","u","e","s","t"," ","t","o"," ","m","o","d","i","f","y"," ","d","i","a","g","r","a","m",":"," ">>,
     label2 |->
        <<"P","l","e","a","s","e"," ","u","p","d","a","t","e"," ","t","h","e"," ","d","i","a","g","r","a","m">>,
     placeholder |->
        <<"P","r","o","c","e","s","s","i","n","g"," ","d","i","a","g","r","a","m"," ","m","o","d","i","f","i","c","a","t","i","o","n"," ","r","e","q","u","e","s","t",".",".",".">>
    ]

modify_jira_stories_text ==
    [
     combined1 |->
        <<"O","r","i","g","i","n","a","l"," ","J","i","r","a"," ","S","t","o","r","i","e","s",":","\n">>,
     combined2 |->
        <<"\n","\n","A","d","d","i","t","i","o","n","a","l"," ","R","e","q","u","i","r","e","m","e","n","t","s","/","F","e","e","d","b","a","c","k",":","\n",DoubleQuote>>,
     label1 |->
        <<"R","e","q","u","e","s","t"," ","t","o"," ","m","o","d","i","f","y"," ","J","i","r","a"," ","s","t","o","r","i","e","s",":"," ">>,
     label2 |->
        <<"P","l","e","a","s","e"," ","u","p","d","a","t","e"," ","t","h","e"," ","J","i","r","a"," ","s","t","o","r","i","e","s">>,
     placeholder |->
        <<"P","r","o","c","e","s","s","i","n","g"," ","m","o","d","i","f","i","c","a","t","i","o","n"," ","r","e","q","u","e","s","t",".",".",".">>
    ]

refine_requirements_text ==
    [
     label1_pre |->
        <<"R","a","w"," ","d","o","c","u","m","e","n","t"," ","t","o"," ","r","e","f","i","n","e",":"," ">>,
     label1_post |->
        <<".",".",".">>,
     label2 |->
        <<"R","e","f","i","n","e"," ","d","o","c","u","m","e","n","t"," ","i","n","t","o"," ","r","e","q","u","i","r","e","m","e","n","t","s">>,
     placeholder |->
        <<"P","r","o","c","e","s","s","i","n","g"," ","d","o","c","u","m","e","n","t"," ","r","e","f","i","n","e","m","e","n","t",".",".",".">>,
     combined1 |->
        <<"R","a","w"," ","D","o","c","u","m","e","n","t",":","\n">>,
     combined2 |->
        <<"\n","\n","O","u","t","p","u","t"," ","F","o","r","m","a","t",":"," ","s","t","r","u","c","t","u","r","e","d","_","r","e","q","u","i","r","e","m","e","n","t","s","\n","\n","T","a","r","g","e","t"," ","A","u","d","i","e","n","c","e",":"," ","d","e","v","e","l","o","p","m","e","n","t","_","t","e","a","m","\n","\n","I","n","c","l","u","d","e"," ","A","c","c","e","p","t","a","n","c","e"," ","C","r","i","t","e","r","i","a",":"," ","T","r","u","e">>
    ]

upload_stories_to_jira_text ==
    [
     label_pre |->
        <<"U","p","l","o","a","d"," ">>,
     label_mid |->
        <<" ","s","t","o","r","i","e","s"," ","t","o"," ","J","i","r","a"," ","p","r","o","j","e","c","t"," ">>
    ]

generate_project_code_text ==
    [
     label_pre |->
        <<"G","e","n","e","r","a","t","e"," ","p","r","o","j","e","c","t"," ","w","i","t","h"," ","t","e","c","h","n","o","l","o","g","i","e","s",":"," ">>,
     output_pre |->
        <<"G","e","n","e","r","a","t","e","d"," ","c","o","m","p","l","e","t","e"," ","p","r","o","j","e","c","t"," ","w","i","t","h"," ">>,
     output_mid |->
        <<" ","f","i","l","e","s"," ","u","s","i","n","g",":"," ">>,
     separator |->
        <<","," ">>
    ]

(***************************************************************************)
(* Request texts, model replies and literals of the documentation, Jira,   *)
(* requirements and project routes.                                        *)
(***************************************************************************)
ShortDoc ==
    <<"f","i","x"," ","l","o","g","i","n">>
OkDoc ==
    <<"u","s","e","r","s"," ","m","u","s","t"," ","l","o","g"," ","i","n">>
RefinedText ==
    <<" ","R","E","Q","-","1",":"," ","u","s","e","r","s"," ","l","o","g"," ","i","n","\n">>
RevisedStories ==
    <<"#","#"," ","A","s"," ","a"," ","a","d","m","i","n","\n","S","t","o","r","y"," ","P","o","i","n","t","s",":"," ","5">>
TwoStories ==
    <<"#","#"," ","A","s"," ","a"," ","b","u","y","e","r","\n","p","a","y","\n","#","#"," ","A","s"," ","a"," ","a","d","m","i","n","\n","a","u","d","i","t">>
HeadingOnly ==
    <<"#","#">>
ProjectKey ==
    <<"P","R","O","J">>
PromptText ==
    <<"b","u","i","l","d"," ","a"," ","s","h","o","p">>
NextJs ==
    <<"N","e","x","t",".","j","s">>
FastApi ==
    <<"F","a","s","t","A","P","I">>
Frontend ==
    <<"f","r","o","n","t","e","n","d">>
Unknown ==
    <<"u","n","k","n","o","w","n">>
MainPyPath ==
    <<"a","p","p","/","m","a","i","n",".","p","y">>
MainPyContent ==
    <<"p","r","i","n","t","(","1",")">>
Python ==
    <<"p","y","t","h","o","n">>
TextLanguage ==
    <<"t","e","x","t">>
MongoDb ==
    <<"M","o","n","g","o","D","B">>
Database ==
    <<"d","a","t","a","b","a","s","e">>
Version14 ==
    <<"1","4">>
PathAB ==
    <<"a","/","b",".","t","x","t">>
PathACD ==
    <<"a","/","c","/","d",".","t","x","t">>
PathA ==
    <<"a">>

\* the literals of generate_code in llm.py (lines 771-835)
generate_code_text ==
    [
     diagram_pre |->
        <<"D","i","a","g","r","a","m",":","\n">>,
     stories_pre |->
        <<"J","i","r","a"," ","S","t","o","r","i","e","s",":","\n">>,
     source_diagram |->
        <<"d","i","a","g","r","a","m">>,
     source_stories |->
        <<"j","i","r","a"," ","s","t","o","r","i","e","s">>,
     label1_pre |->
        <<"G","e","n","e","r","a","t","e"," ">>,
     label1_mid |->
        <<" ","c","o","d","e"," ","b","a","s","e","d"," ","o","n"," ">>,
     placeholder |->
        <<"P","r","o","c","e","s","s","i","n","g"," ","c","o","d","e"," ","g","e","n","e","r","a","t","i","o","n"," ","r","e","q","u","e","s","t",".",".",".">>,
     input_pre |->
        <<"P","r","o","g","r","a","m","m","i","n","g"," ","L","a","n","g","u","a","g","e",":"," ">>,
     label2_pre |->
        <<"G","e","n","e","r","a","t","e","d"," ">>,
     label2_post |->
        <<" ","c","o","d","e">>
    ]

(***************************************************************************)
(* MemoryService over LangChain's ConversationBufferWindowMemory.          *)
(*                                                                         *)
(* A memory object is [k, messages].  save_context appends one human and   *)
(* one AI message to chat_memory.messages; the window k only limits what   *)
(* load_memory_variables hands to a prompt (the last 2k messages), it      *)
(* never removes a stored message.  The routes and the content finders     *)
(* read chat_memory.messages directly.                                     *)
(***************************************************************************)
Users == {"u1", "u2"}

NoSession == 0

memory_window_size == 4

\* truth value of an Optional[str]: None and "" are falsy
Truthy(x) == x # None /\ x # <<>>

HumanMessage(content) == [type |-> "human", content |-> content]

AIMessage(content) == [type |-> "ai", content |-> content]

ConversationBufferWindowMemory(k) == [k |-> k, messages |-> <<>>]

save_context(memory, input, output) ==
    [memory EXCEPT !.messages = @ \o <<HumanMessage(input), AIMessage(output)>>]

\* what a prompt receives as chat_history
load_memory_variables(memory) ==
    IF memory.k > 0 /\ Len(memory.messages) > 2 * memory.k
        THEN SubSeq(memory.messages,
                    Len(memory.messages) - 2 * memory.k + 1, Len(memory.messages))
        ELSE IF memory.k > 0 THEN memory.messages ELSE <<>>

\* a memory service that builds a new memory object on every call
get_or_create_memory_always_new(sm, ss, user_id) ==
    [sm  |-> [sm EXCEPT ![user_id] = Len(ss) + 1],
     ss  |-> Append(ss, ConversationBufferWindowMemory(memory_window_size)),
     ref |-> Len(ss) + 1]

\* a memory service with one memory object for all users
get_or_create_memory_one_for_all(sm, ss, user_id) ==
    LET registered == {sm[u] : u \in Users} \ {NoSession}
    IN  IF registered = {}
        THEN [sm  |-> [sm EXCEPT ![user_id] = Len(ss) + 1],
              ss  |-> Append(ss, ConversationBufferWindowMemory(memory_window_size)),
              ref |-> Len(ss) + 1]
        ELSE [sm  |-> [sm EXCEPT ![user_id] = Max(registered)],
              ss  |-> ss, ref |-> Max(registered)]

\* returns the new dict, the new heap of memory objects and the object returned
get_or_create_memory(sm, ss, user_id) ==
    IF sm[user_id] = NoSession
        THEN [sm  |-> [sm EXCEPT ![user_id] = Len(ss) + 1],
              ss  |-> Append(ss, ConversationBufferWindowMemory(memory_window_size)),
              ref |-> Len(ss) + 1]
        ELSE [sm |-> sm, ss |-> ss, ref |-> sm[user_id]]

\* a clear that reports success but leaves the entry in the dict
clear_memory_keeps_entry(sm, user_id) ==
    [sm |-> sm, ret |-> IF sm[user_id] # NoSession THEN "True" ELSE "False"]

clear_memory(sm, user_id) ==
    IF sm[user_id] # NoSession
        THEN [sm |-> [sm EXCEPT ![user_id] = NoSession], ret |-> "True"]
        ELSE [sm |-> sm, ret |-> "False"]

\* MemoryService.get_last_ai_message(user_id): the pattern argument is ignored
RECURSIVE LastAiContent(_)
LastAiContent(memory_messages) ==
    IF Len(memory_messages) = 0 THEN None
    ELSE IF memory_messages[Len(memory_messages)].type = "ai"
        THEN memory_messages[Len(memory_messages)].content
        ELSE LastAiContent(DropLast(memory_messages, 1))

get_last_ai_message(sm, ss, user_id) ==
    IF sm[user_id] = NoSession THEN None
    ELSE LastAiContent(ss[sm[user_id]].messages)

(***************************************************************************)
(* Requests.  Every route is an `async def` with no suspension point, so   *)
(* the event loop runs a handler from its first statement to its return    *)
(* or raise before it starts another one; `running` is the request that    *)
(* holds the loop.  A frame keeps the request, the handler's locals and    *)
(* what reached the caller; `saved` lists the messages the request         *)
(* appended to memory itself (the chain's own save_context included),      *)
(* `invoked` the chains it called, in order.                               *)
(***************************************************************************)
\* get_project's None
NoProject ==
    [project_id |-> 0, technologies |-> <<>>, files |-> <<>>, root_structure |-> <<>>]

\* temp_files.get's None
NoPath == 0

IdleFrame ==
    [op |-> "idle", user |-> "nobody", pc |-> "idle",
     artifact |-> None, arg |-> None, jira_stories |-> None,
     source_type |-> None, context |-> None,
     full_input |-> [technologies |-> <<>>, prompt |-> None, context |-> None],
     chain_memory |-> NoSession, shared_memory |-> NoSession,
     content |-> None, combined_input |-> None,
     response |-> None, saved |-> <<>>,
     technologies |-> <<>>, files |-> <<>>, cleared |-> "unset",
     invoked |-> <<>>, count |-> 0, project_id |-> 0, parsed |-> "unset",
     raised |-> "none", exc |-> "none", status |-> 0, body |-> None,
     requirements_are_valid |-> None, is_valid |-> "unset",
     project |-> NoProject, zip_path |-> NoPath]

NewFrame(op, user_id, artifact, arg) ==
    [IdleFrame EXCEPT !.op = op, !.user = user_id, !.pc = "begin",
                      !.artifact = artifact, !.arg = arg]

\* the event loop is preempted at any statement (threads, not coroutines)
CanRun_preemptive(s) == TRUE

CanRun(s) == running = 0 \/ running = s

\* the requests of a run, in arrival order
Slots == DOMAIN frames

\* a new request takes the next free frame
StartGuard(s) ==
    /\ frames[s].pc = "idle"
    /\ \A t \in Slots : t < s => frames[t].pc # "idle"
    /\ CanRun(s)

At(s, op, pc) ==
    /\ frames[s].op = op
    /\ frames[s].pc = pc
    /\ CanRun(s)

Step(s, f) ==
    /\ frames' = [frames EXCEPT ![s] = f]
    /\ running' = IF f.pc = "done" THEN 0 ELSE s

\* routes whose except clauses re-raise a ValidationException unchanged
ReRaisesValidation == {"refine_requirements", "upload_stories_to_jira"}

\* routes without a try block: the exception reaches the framework as it is
NoExceptClause == {"generate_code"}

\* the routes' `except` clauses: what reaches the caller for an exception
Raise(f, raised) ==
    IF f.op \in ReRaisesValidation /\ raised = "ValidationException"
        THEN [f EXCEPT !.pc = "done", !.raised = raised,
                       !.exc = "ValidationException", !.status = 400]
    ELSE IF f.op \in NoExceptClause
        THEN [f EXCEPT !.pc = "done", !.raised = raised, !.exc = raised,
                       !.status = IF raised = "HTTPException" THEN 400 ELSE 500]
        ELSE [f EXCEPT !.pc = "done", !.raised = raised,
                       !.exc = "AIServiceException", !.status = 500]

Return(f, body) == [f EXCEPT !.pc = "done", !.status = 200, !.body = body]

Turn(input, output) == <<HumanMessage(input), AIMessage(output)>>

\* the outcome of a model call that failed (network, quota, model error)
UpstreamError == <<"UpstreamError">>

MainIdle(requests) ==
    /\ shared_memories = [u \in Users |-> NoSession]
    /\ sessions = <<>>
    /\ generated_projects = <<>>
    /\ temp_files = <<>>
    /\ zip_files = <<>>
    /\ frames = [s \in 1..requests |-> IdleFrame]
    /\ running = 0

(***************************************************************************)
(* api/routes/diagram.py                                                   *)
(***************************************************************************)
diagram_type_mapping(t) ==
    CASE t \in {<<"f","l","o","w">>, <<"f","l","o","w","c","h","a","r","t">>} -> <<"f","l","o","w","c","h","a","r","t">>
      [] t = <<"s","e","q","u","e","n","c","e">> -> <<"s","e","q","u","e","n","c","e">>
      [] t = <<"c","l","a","s","s">> -> <<"c","l","a","s","s">>
      [] t \in {<<"e","r">>, <<"e","n","t","i","t","y"," ","r","e","l","a","t","i","o","n","s","h","i","p">>} -> <<"e","n","t","i","t","y","-","r","e","l","a","t","i","o","n","s","h","i","p">>
      [] t = <<"s","t","a","t","e">> -> <<"s","t","a","t","e">>
      [] t = <<"g","a","n","t","t">> -> <<"g","a","n","t","t">>
      [] t \in {<<"u","s","e","r"," ","j","o","u","r","n","e","y">>, <<"j","o","u","r","n","e","y">>} -> <<"u","s","e","r"," ","j","o","u","r","n","e","y">>
      [] OTHER -> t

normalized_diagram_type(diagram_type) == diagram_type_mapping(Lower(diagram_type))

\* what memory holds first, then the request text
FromRequestOrMemory_memory_first(explicit, found) ==
    IF Truthy(found) THEN found ELSE explicit

\* `x = request.x; if not x: x = <found in memory>`: the finders are pure,
\* so `found` stands for what the lookup returns when it is made
FromRequestOrMemory(explicit, found) ==
    IF Truthy(explicit) THEN explicit ELSE found

FencedGraph == FenceMermaid \o <<"\n">> \o GraphBody \o <<"\n">> \o Fence

DiagramCompletions == {FencedGraph}

ModificationPrompt ==
    <<"a","d","d"," ","C">>

\* lines 16-31: validate, build the chain (which binds the user's memory),
\* take the stories from the request or from memory
generate_diagram_begin(s) ==
    /\ StartGuard(s)
    /\ \E user_id \in Users, diagram_type \in {None, TFlow},
          jira_stories \in {None, StoriesText} :
        LET f0 == NewFrame("generate_diagram", user_id, jira_stories, diagram_type)
            g1 == get_or_create_memory(shared_memories, sessions, user_id)
            g2 == get_or_create_memory(g1.sm, g1.ss, user_id)
            f1 == [f0 EXCEPT !.chain_memory = g1.ref]
            found == find_jira_stories_in_memory(g2.ss[g2.ref].messages)
            stories == FromRequestOrMemory(jira_stories, found)
        IN  IF ~Truthy(diagram_type)
            THEN /\ Step(s, Raise(f0, "ValidationException"))
                 /\ UNCHANGED <<shared_memories, sessions>>
            ELSE IF Truthy(jira_stories)
            THEN /\ shared_memories' = g1.sm
                 /\ sessions' = g1.ss
                 /\ Step(s, [f1 EXCEPT !.pc = "resolved", !.content = stories])
            ELSE /\ shared_memories' = g2.sm
                 /\ sessions' = g2.ss
                 /\ IF ~Truthy(stories)
                    THEN Step(s, Raise(f1, "ValidationException"))
                    ELSE Step(s, [f1 EXCEPT !.pc = "resolved", !.content = stories])
    /\ UNCHANGED <<generated_projects, zipvars, fnvars>>

\* lines 33-64: build the chain input, write the placeholder turn
generate_diagram_placeholder(s) ==
    /\ At(s, "generate_diagram", "resolved")
    /\ LET f == frames[s]
           t == normalized_diagram_type(f.arg)
           combined_input == generate_diagram_text.combined1 \o f.content \o generate_diagram_text.combined2 \o t \o <<"\n">>
           g == get_or_create_memory(shared_memories, sessions, f.user)
           turn == Turn(generate_diagram_text.label_pre \o t \o generate_diagram_text.label_post1, generate_diagram_text.placeholder)
       IN  /\ shared_memories' = g.sm
           /\ sessions' = [g.ss EXCEPT ![g.ref] = save_context(@, turn[1].content, turn[2].content)]
           /\ Step(s, [f EXCEPT !.pc = "invoking", !.shared_memory = g.ref,
                                !.combined_input = combined_input,
                                !.saved = @ \o turn])
    /\ UNCHANGED <<generated_projects, zipvars, fnvars>>

\* a model call that is made a second time when the first one failed
generate_diagram_run_retrying(s) ==
    /\ At(s, "generate_diagram", "invoking")
    /\ \E out \in {UpstreamError} \cup DiagramCompletions :
        LET f == frames[s]
            turn == Turn(f.combined_input, out)
        IN  IF out = UpstreamError
            THEN /\ IF f.invoked = <<>>
                    THEN Step(s, [f EXCEPT !.invoked = Append(@, f.op)])
                    ELSE Step(s, Raise([f EXCEPT !.invoked = Append(@, f.op)],
                                       "UpstreamError"))
                 /\ UNCHANGED sessions
            ELSE /\ sessions' = [sessions EXCEPT ![f.chain_memory] =
                                    save_context(@, turn[1].content, turn[2].content)]
                 /\ Step(s, [f EXCEPT !.pc = "responded", !.response = out,
                                      !.invoked = Append(@, f.op),
                                      !.saved = @ \o turn])
    /\ UNCHANGED <<shared_memories, generated_projects, zipvars, fnvars>>

\* line 66 (and 76-78 when it raises): the chain calls the model and, on
\* success, saves its own turn (input, raw response) to the memory it binds
generate_diagram_run(s) ==
    /\ At(s, "generate_diagram", "invoking")
    /\ \E out \in {UpstreamError} \cup DiagramCompletions :
        LET f == frames[s]
            turn == Turn(f.combined_input, out)
        IN  IF out = UpstreamError
            THEN /\ Step(s, Raise([f EXCEPT !.invoked = Append(@, f.op)],
                                  "UpstreamError"))
                 /\ UNCHANGED sessions
            ELSE /\ sessions' = [sessions EXCEPT ![f.chain_memory] =
                                    save_context(@, turn[1].content, turn[2].content)]
                 /\ Step(s, [f EXCEPT !.pc = "responded", !.response = out,
                                      !.invoked = Append(@, f.op),
                                      !.saved = @ \o turn])
    /\ UNCHANGED <<shared_memories, generated_projects, zipvars, fnvars>>

\* lines 67-75: clean the response, write the final turn, return
generate_diagram_commit(s) ==
    /\ At(s, "generate_diagram", "responded")
    /\ LET f == frames[s]
           t == normalized_diagram_type(f.arg)
           clean_response == clean_mermaid_response(f.response)
           turn == Turn(generate_diagram_text.label_pre \o t \o generate_diagram_text.label_post2, clean_response)
       IN  /\ sessions' = [sessions EXCEPT ![f.shared_memory] =
                              save_context(@, turn[1].content, turn[2].content)]
           /\ Step(s, [Return(f, clean_response) EXCEPT !.saved = @ \o turn])
    /\ UNCHANGED <<shared_memories, generated_projects, zipvars, fnvars>>

\* lines 83-94
modify_diagram_begin(s) ==
    /\ StartGuard(s)
    /\ \E user_id \in Users, original_diagram_code \in {None, <<>>, GanttBody} :
        LET f0 == NewFrame("modify_diagram", user_id, original_diagram_code,
                           ModificationPrompt)
            g1 == get_or_create_memory(shared_memories, sessions, user_id)
            g2 == get_or_create_memory(g1.sm, g1.ss, user_id)
            f1 == [f0 EXCEPT !.chain_memory = g1.ref]
            found == find_diagram_in_memory(g2.ss[g2.ref].messages)
            code == FromRequestOrMemory(original_diagram_code, found)
        IN  IF Truthy(original_diagram_code)
            THEN /\ shared_memories' = g1.sm
                 /\ sessions' = g1.ss
                 /\ Step(s, [f1 EXCEPT !.pc = "resolved", !.content = code])
            ELSE /\ shared_memories' = g2.sm
                 /\ sessions' = g2.ss
                 /\ IF ~Truthy(code)
                    THEN Step(s, Raise(f1, "ValidationException"))
                    ELSE Step(s, [f1 EXCEPT !.pc = "resolved", !.content = code])
    /\ UNCHANGED <<generated_projects, zipvars, fnvars>>

\* lines 96-109
modify_diagram_placeholder(s) ==
    /\ At(s, "modify_diagram", "resolved")
    /\ LET f == frames[s]
           combined_input == modify_diagram_text.combined1 \o f.content \o modify_diagram_text.combined2 \o f.arg
                                 \o CombinedQuoteEnd
           g == get_or_create_memory(shared_memories, sessions, f.user)
           turn == Turn(modify_diagram_text.label1 \o f.arg, modify_diagram_text.placeholder)
       IN  /\ shared_memories' = g.sm
           /\ sessions' = [g.ss EXCEPT ![g.ref] = save_context(@, turn[1].content, turn[2].content)]
           /\ Step(s, [f EXCEPT !.pc = "invoking", !.shared_memory = g.ref,
                                !.combined_input = combined_input,
                                !.saved = @ \o turn])
    /\ UNCHANGED <<generated_projects, zipvars, fnvars>>

\* the chain call with an except clause that records the failure in memory
modify_diagram_run_compensating(s) ==
    /\ At(s, "modify_diagram", "invoking")
    /\ \E out \in {UpstreamError} \cup DiagramCompletions :
        LET f == frames[s]
            turn == Turn(f.combined_input, out)
        IN  /\ sessions' = [sessions EXCEPT ![f.chain_memory] =
                               save_context(@, turn[1].content, turn[2].content)]
            /\ IF out = UpstreamError
               THEN Step(s, Raise([f EXCEPT !.invoked = Append(@, f.op),
                                            !.saved = @ \o turn],
                                  "UpstreamError"))
               ELSE Step(s, [f EXCEPT !.pc = "responded", !.response = out,
                                      !.invoked = Append(@, f.op),
                                      !.saved = @ \o turn])
    /\ UNCHANGED <<shared_memories, generated_projects, zipvars, fnvars>>

\* line 111 (and 121-123 when it raises)
modify_diagram_run(s) ==
    /\ At(s, "modify_diagram", "invoking")
    /\ \E out \in {UpstreamError} \cup DiagramCompletions :
        LET f == frames[s]
            turn == Turn(f.combined_input, out)
        IN  IF out = UpstreamError
            THEN /\ Step(s, Raise([f EXCEPT !.invoked = Append(@, f.op)],
                                  "UpstreamError"))
                 /\ UNCHANGED sessions
            ELSE /\ sessions' = [sessions EXCEPT ![f.chain_memory] =
                                    save_context(@, turn[1].content, turn[2].content)]
                 /\ Step(s, [f EXCEPT !.pc = "responded", !.response = out,
                                      !.invoked = Append(@, f.op),
                                      !.saved = @ \o turn])
    /\ UNCHANGED <<shared_memories, generated_projects, zipvars, fnvars>>

\* lines 112-120
modify_diagram_commit(s) ==
    /\ At(s, "modify_diagram", "responded")
    /\ LET f == frames[s]
           clean_response == clean_mermaid_response(f.response)
           turn == Turn(modify_diagram_text.label2, clean_response)
       IN  /\ sessions' = [sessions EXCEPT ![f.shared_memory] =
                              save_context(@, turn[1].content, turn[2].content)]
           /\ Step(s, [Return(f, clean_response) EXCEPT !.saved = @ \o turn])
    /\ UNCHANGED <<shared_memories, generated_projects, zipvars, fnvars>>

(***************************************************************************)
(* api/routes/session.py: logout clears the caller's memory and ignores    *)
(* what clear_memory returns (kept in the frame as `cleared`).             *)
(***************************************************************************)
logout(s) ==
    /\ StartGuard(s)
    /\ \E user_id \in Users :
        LET c == clear_memory(shared_memories, user_id)
            f0 == NewFrame("logout", user_id, None, None)
        IN  /\ shared_memories' = c.sm
            /\ Step(s, [Return(f0, None) EXCEPT !.cleared = c.ret])
    /\ UNCHANGED <<sessions, generated_projects, zipvars, fnvars>>

(***************************************************************************)
(* api/routes/documentation.py: modify_jira_stories                        *)
(***************************************************************************)
StoriesCompletions == {RevisedStories}

\* lines 62-70: build the chain, take the stories from the request or the
\* last AI message of the user's memory
modify_jira_stories_begin(s) ==
    /\ StartGuard(s)
    /\ \E user_id \in Users, original_stories \in {None, TwoStories} :
        LET f0 == NewFrame("modify_jira_stories", user_id, original_stories,
                           ModificationPrompt)
            g1 == get_or_create_memory(shared_memories, sessions, user_id)
            f1 == [f0 EXCEPT !.chain_memory = g1.ref]
            found == get_last_ai_message(g1.sm, g1.ss, user_id)
            stories == FromRequestOrMemory(original_stories, found)
        IN  /\ shared_memories' = g1.sm
            /\ sessions' = g1.ss
            /\ IF ~Truthy(stories)
               THEN Step(s, Raise(f1, "MemoryNotFoundException"))
               ELSE Step(s, [f1 EXCEPT !.pc = "resolved", !.content = stories])
    /\ UNCHANGED <<generated_projects, zipvars, fnvars>>

\* lines 72-84
modify_jira_stories_placeholder(s) ==
    /\ At(s, "modify_jira_stories", "resolved")
    /\ LET f == frames[s]
           combined_input == modify_jira_stories_text.combined1 \o f.content \o modify_jira_stories_text.combined2 \o f.arg
                                 \o CombinedQuoteEnd
           g == get_or_create_memory(shared_memories, sessions, f.user)
           turn == Turn(modify_jira_stories_text.label1 \o f.arg, modify_jira_stories_text.placeholder)
       IN  /\ shared_memories' = g.sm
           /\ sessions' = [g.ss EXCEPT ![g.ref] = save_context(@, turn[1].content, turn[2].content)]
           /\ Step(s, [f EXCEPT !.pc = "invoking", !.shared_memory = g.ref,
                                !.combined_input = combined_input,
                                !.saved = @ \o turn])
    /\ UNCHANGED <<generated_projects, zipvars, fnvars>>

\* line 86 (and 95-97 when it raises)
modify_jira_stories_run(s) ==
    /\ At(s, "modify_jira_stories", "invoking")
    /\ \E out \in {UpstreamError} \cup StoriesCompletions :
        LET f == frames[s]
            turn == Turn(f.combined_input, out)
        IN  IF out = UpstreamError
            THEN /\ Step(s, Raise([f EXCEPT !.invoked = Append(@, f.op)],
                                  "UpstreamError"))
                 /\ UNCHANGED sessions
            ELSE /\ sessions' = [sessions EXCEPT ![f.chain_memory] =
                                    save_context(@, turn[1].content, turn[2].content)]
                 /\ Step(s, [f EXCEPT !.pc = "responded", !.response = out,
                                      !.invoked = Append(@, f.op),
                                      !.saved = @ \o turn])
    /\ UNCHANGED <<shared_memories, generated_projects, zipvars, fnvars>>

\* lines 88-94: the response is stored and returned as the model gave it
modify_jira_stories_commit(s) ==
    /\ At(s, "modify_jira_stories", "responded")
    /\ LET f == frames[s]
           turn == Turn(modify_jira_stories_text.label2, f.response)
       IN  /\ sessions' = [sessions EXCEPT ![f.shared_memory] =
                              save_context(@, turn[1].content, turn[2].content)]
           /\ Step(s, [Return(f, f.response) EXCEPT !.saved = @ \o turn])
    /\ UNCHANGED <<shared_memories, generated_projects, zipvars, fnvars>>

(***************************************************************************)
(* services/validation_service.py and api/routes/documentation.py:         *)
(* generate_jira_stories                                                   *)
(***************************************************************************)
MinRequirementLength == 10

MaxRequirementLength == 5000

validate_requirement_text ==
    [empty |-> <<"R","e","q","u","i","r","e","m","e","n","t"," ","c","a","n","n","o","t"," ","b","e"," ","e","m","p","t","y">>,
     too_short |-> <<"R","e","q","u","i","r","e","m","e","n","t"," ","i","s"," ","t","o","o"," ","s","h","o","r","t","."," ","P","l","e","a","s","e"," ","p","r","o","v","i","d","e"," ","m","o","r","e"," ","d","e","t","a","i","l","s",".">>,
     too_long |-> <<"R","e","q","u","i","r","e","m","e","n","t"," ","i","s"," ","t","o","o"," ","l","o","n","g","."," ","P","l","e","a","s","e"," ","k","e","e","p"," ","i","t"," ","u","n","d","e","r"," ","5","0","0","0"," ","c","h","a","r","a","c","t","e","r","s",".">>,
     error_pre |-> <<"V","a","l","i","d","a","t","i","o","n"," ","s","e","r","v","i","c","e"," ","e","r","r","o","r",":"," ">>]

generate_jira_stories_text ==
    [label1 |-> <<"R","e","q","u","i","r","e","m","e","n","t",":"," ">>,
     placeholder |-> <<"I","'","l","l"," ","g","e","n","e","r","a","t","e"," ","J","i","r","a"," ","s","t","o","r","i","e","s"," ","f","o","r"," ","t","h","i","s"," ","r","e","q","u","i","r","e","m","e","n","t",".">>,
     label2 |-> <<"P","l","e","a","s","e"," ","g","e","n","e","r","a","t","e"," ","J","i","r","a"," ","s","t","o","r","i","e","s">>]

TrueText == <<"t","r","u","e">>

create_validation_requirements_chain(user_id) ==
    [name |-> "validation_requirements", memory |-> NoSession]

\* what the validation chain answers: the exact text true, the text true
\* with a line end, a refusal, or an exception of the call
ValidationReplies ==
    {TrueText, TrueText \o <<"\n">>, <<"T","h","e"," ","r","e","q","u","i","r","e","m","e","n","t"," ","i","s"," ","n","o","t"," ","c","l","e","a","r",".">>, UpstreamError}

\* a validation that asks the chain without testing the requirement first
validate_requirement_chain_only(requirement, reply) ==
    IF reply = UpstreamError
    THEN [result |-> validate_requirement_text.error_pre \o UpstreamError,
          invoked |-> <<create_validation_requirements_chain("u1").name>>]
    ELSE [result |-> reply,
          invoked |-> <<create_validation_requirements_chain("u1").name>>]

\* validate_requirement(requirement, user_id) when the chain answers reply:
\* the text returned and the chains called
validate_requirement(requirement, reply) ==
    IF ~Truthy(requirement) \/ Strip(requirement) = <<>>
    THEN [result |-> validate_requirement_text.empty, invoked |-> <<>>]
    ELSE IF Len(Strip(requirement)) < MinRequirementLength
    THEN [result |-> validate_requirement_text.too_short, invoked |-> <<>>]
    ELSE IF Len(requirement) > MaxRequirementLength
    THEN [result |-> validate_requirement_text.too_long, invoked |-> <<>>]
    ELSE IF reply = UpstreamError
    THEN [result |-> validate_requirement_text.error_pre \o UpstreamError,
          invoked |-> <<create_validation_requirements_chain("u1").name>>]
    ELSE [result |-> reply,
          invoked |-> <<create_validation_requirements_chain("u1").name>>]

ShortRequirement == <<"a"," ","b"," ","c"," ","d"," ","e">>

OkRequirement == <<"U","s","e","r","s"," ","p","a","y"," ","b","y"," ","c","a","r","d">>

\* the text of n characters c
RECURSIVE Repeat(_, _)
Repeat(c, n) ==
    IF n = 0 THEN <<>>
    ELSE IF n % 2 = 0 THEN LET half == Repeat(c, n \div 2) IN half \o half
    ELSE <<c>> \o Repeat(c, n - 1)

RequirementAtLimit == Repeat("x", MaxRequirementLength)

Requirements ==
    {<<>>, <<" ", "\n">>, ShortRequirement, <<" ">> \o ShortRequirement,
     OkRequirement, RequirementAtLimit, RequirementAtLimit \o <<"y">>}

\* validate_requirement on the requirements and replies of the model
ValidationOutcomes ==
    [requirement \in Requirements, reply \in ValidationReplies |->
        validate_requirement(requirement, reply)]

\* lines 21-28: the validation, and the response for a requirement that is
\* not valid
generate_jira_stories_validate(s) ==
    /\ StartGuard(s)
    /\ \E user_id \in Users, requirement \in Requirements, reply \in ValidationReplies :
        LET f0 == NewFrame("generate_jira_stories", user_id, None, requirement)
            v == ValidationOutcomes[requirement, reply]
            requirements_are_valid == v.result
            f1 == [f0 EXCEPT !.invoked = v.invoked,
                             !.requirements_are_valid = requirements_are_valid]
        IN  IF requirements_are_valid # TrueText
            THEN Step(s, [Return(f1, Strip(requirements_are_valid))
                            EXCEPT !.is_valid = "False"])
            ELSE Step(s, [f1 EXCEPT !.pc = "validated"])
    /\ UNCHANGED <<shared_memories, sessions, generated_projects, zipvars, fnvars>>

\* lines 30-36: the chain on the user's memory and the placeholder turn
generate_jira_stories_placeholder(s) ==
    /\ At(s, "generate_jira_stories", "validated")
    /\ LET f == frames[s]
           g1 == get_or_create_memory(shared_memories, sessions, f.user)
           g == get_or_create_memory(g1.sm, g1.ss, f.user)
           turn == Turn(generate_jira_stories_text.label1 \o f.arg,
                        generate_jira_stories_text.placeholder)
       IN  /\ shared_memories' = g.sm
           /\ sessions' = [g.ss EXCEPT ![g.ref] = save_context(@, turn[1].content, turn[2].content)]
           /\ Step(s, [f EXCEPT !.pc = "invoking", !.chain_memory = g1.ref,
                                !.shared_memory = g.ref,
                                !.saved = @ \o turn])
    /\ UNCHANGED <<generated_projects, zipvars, fnvars>>

\* lines 38-41 (and 54-56 when it raises): the chain calls the model and, on
\* success, saves the requirement and the answer to its memory
generate_jira_stories_run(s) ==
    /\ At(s, "generate_jira_stories", "invoking")
    /\ \E out \in {UpstreamError} \cup StoriesCompletions :
        LET f == frames[s]
            turn == Turn(f.arg, out)
        IN  IF out = UpstreamError
            THEN /\ Step(s, Raise([f EXCEPT !.invoked = Append(@, f.op)],
                                  "UpstreamError"))
                 /\ UNCHANGED sessions
            ELSE /\ sessions' = [sessions EXCEPT ![f.chain_memory] =
                                    save_context(@, turn[1].content, turn[2].content)]
                 /\ Step(s, [f EXCEPT !.pc = "responded", !.response = out,
                                      !.invoked = Append(@, f.op),
                                      !.saved = @ \o turn])
    /\ UNCHANGED <<shared_memories, generated_projects, zipvars, fnvars>>

\* lines 43-53
generate_jira_stories_commit(s) ==
    /\ At(s, "generate_jira_stories", "responded")
    /\ LET f == frames[s]
           turn == Turn(generate_jira_stories_text.label2, f.response)
       IN  /\ sessions' = [sessions EXCEPT ![f.shared_memory] =
                              save_context(@, turn[1].content, turn[2].content)]
           /\ Step(s, [Return(f, Strip(f.response))
                         EXCEPT !.saved = @ \o turn, !.is_valid = "True"])
    /\ UNCHANGED <<shared_memories, generated_projects, zipvars, fnvars>>

(***************************************************************************)
(* services/jira_service.py: how many stories a Markdown text holds        *)
(***************************************************************************)
\* a match of \n##\s+ starts at position i
SectionBreakAt(s, i) ==
    /\ i + 3 <= Len(s)
    /\ s[i] = "\n" /\ s[i + 1] = "#" /\ s[i + 2] = "#"
    /\ s[i + 3] \in Whitespace

\* first position after the match that starts at i (\s+ is greedy)
SectionBreakEnd(s, i) ==
    IF \E j \in (i + 3)..Len(s) : s[j] \notin Whitespace
        THEN Min({j \in (i + 3)..Len(s) : s[j] \notin Whitespace})
        ELSE Len(s) + 1

\* re.split(r'\n##\s+', markdown_content)
RECURSIVE SplitStorySections(_, _, _)
SplitStorySections(s, start, i) ==
    IF i > Len(s) THEN <<SubSeq(s, start, Len(s))>>
    ELSE IF SectionBreakAt(s, i)
        THEN <<SubSeq(s, start, i - 1)>>
                 \o SplitStorySections(s, SectionBreakEnd(s, i), SectionBreakEnd(s, i))
        ELSE SplitStorySections(s, start, i + 1)

\* _parse_single_story: the title of a section, <<>> when it has none
StoryTitle(section) ==
    LET first == Strip(Split(Strip(section))[1])
    IN  IF StartsWith(first, HashHash) THEN Strip(DropFirst(first, 2)) ELSE first

\* parse_markdown_stories: the titles of the stories, in order
parse_markdown_stories(markdown_content) ==
    LET sections == SplitStorySections(markdown_content, 1, 1)
        kept == SelectSeq(sections, LAMBDA x : Strip(x) # <<>> /\ StoryTitle(x) # <<>>)
    IN  [i \in 1..Len(kept) |-> StoryTitle(kept[i])]

Digits == <<"0", "1", "2", "3", "4", "5", "6", "7", "8", "9">>

\* str(n) for a natural number
RECURSIVE Str(_)
Str(n) == IF n < 10 THEN <<Digits[n + 1]>> ELSE Str(n \div 10) \o <<Digits[(n % 10) + 1]>>

\* JiraService.upload_stories: the message for success_count of total created
upload_message(success_count, total_stories) ==
    IF success_count = total_stories
        THEN <<"S","u","c","c","e","s","s","f","u","l","l","y"," ","u","p","l","o","a","d","e","d"," ","a","l","l"," ">> \o Str(total_stories) \o <<" ","s","t","o","r","i","e","s"," ","t","o"," ","J","i","r","a">>
    ELSE IF success_count > 0
        THEN <<"U","p","l","o","a","d","e","d"," ">> \o Str(success_count) \o <<"/">> \o Str(total_stories)
                 \o <<" ","s","t","o","r","i","e","s"," ","t","o"," ","J","i","r","a">>
    ELSE <<"F","a","i","l","e","d"," ","t","o"," ","u","p","l","o","a","d"," ","a","n","y"," ","s","t","o","r","i","e","s"," ","t","o"," ","J","i","r","a">>

(***************************************************************************)
(* api/routes/jira.py: upload_stories_to_jira                              *)
(***************************************************************************)
\* what the Jira site answers to the credential and project checks
JiraAnswers == {"bad_credentials", "bad_project", "accepted"}

\* lines 56-67: the stories of the request, else the stories found in memory
upload_stories_to_jira_begin(s) ==
    /\ StartGuard(s)
    /\ \E user_id \in Users, stories_markdown \in {None, StoriesText, HeadingOnly} :
        LET f0 == NewFrame("upload_stories_to_jira", user_id, stories_markdown,
                           ProjectKey)
            g == get_or_create_memory(shared_memories, sessions, user_id)
            found == find_jira_stories_in_memory(g.ss[g.ref].messages)
            stories == FromRequestOrMemory(stories_markdown, found)
        IN  IF Truthy(stories_markdown)
            THEN /\ Step(s, [f0 EXCEPT !.pc = "resolved", !.content = stories])
                 /\ UNCHANGED <<shared_memories, sessions>>
            ELSE /\ shared_memories' = g.sm
                 /\ sessions' = g.ss
                 /\ IF ~Truthy(stories)
                    THEN Step(s, Raise(f0, "ValidationException"))
                    ELSE Step(s, [f0 EXCEPT !.pc = "resolved", !.content = stories])
    /\ UNCHANGED <<generated_projects, zipvars, fnvars>>

\* lines 69-97: check the site, parse the stories, upload them, fetch memory
upload_stories_to_jira_upload(s) ==
    /\ At(s, "upload_stories_to_jira", "resolved")
    /\ \E answer \in JiraAnswers, all_created \in BOOLEAN :
        LET f == frames[s]
            stories == parse_markdown_stories(f.content)
            created == IF all_created THEN Len(stories) ELSE 0
            g == get_or_create_memory(shared_memories, sessions, f.user)
        IN  IF answer # "accepted" \/ Len(stories) = 0
            THEN /\ Step(s, Raise(f, "ValidationException"))
                 /\ UNCHANGED <<shared_memories, sessions>>
            ELSE /\ shared_memories' = g.sm
                 /\ sessions' = g.ss
                 /\ Step(s, [f EXCEPT !.pc = "responded", !.shared_memory = g.ref,
                                      !.count = Len(stories),
                                      !.response = upload_message(created, Len(stories))])
    /\ UNCHANGED <<generated_projects, zipvars, fnvars>>

\* lines 98-116
upload_stories_to_jira_commit(s) ==
    /\ At(s, "upload_stories_to_jira", "responded")
    /\ LET f == frames[s]
           turn == Turn(upload_stories_to_jira_text.label_pre \o Str(f.count) \o upload_stories_to_jira_text.label_mid \o f.arg, f.response)
       IN  /\ sessions' = [sessions EXCEPT ![f.shared_memory] =
                              save_context(@, turn[1].content, turn[2].content)]
           /\ Step(s, [Return(f, f.response) EXCEPT !.saved = @ \o turn])
    /\ UNCHANGED <<shared_memories, generated_projects, zipvars, fnvars>>

(***************************************************************************)
(* Chain factories the routes call that services/chain_factory.py does not *)
(* define: a chain renders its template and invokes the model, and writes  *)
(* nothing to memory itself.                                               *)
(***************************************************************************)
create_requirements_refinement_chain(user_id) ==
    [name |-> "requirements_refinement", memory |-> NoSession]

create_technology_detection_chain(user_id) ==
    [name |-> "technology_detection", memory |-> NoSession]

create_project_code_generation_chain(user_id) ==
    [name |-> "project_code_generation", memory |-> NoSession]

(***************************************************************************)
(* api/routes/requirements.py: refine_requirements                         *)
(***************************************************************************)
MinDocumentLength == 10

LabelPrefixLength == 100

RefinementCompletions == {RefinedText}

\* lines 16-27: validate the document, build the chain, fetch the memory
\* (documents longer than 10000 characters are outside the inputs drawn)
refine_requirements_begin(s) ==
    /\ StartGuard(s)
    /\ \E user_id \in Users, raw_document \in {ShortDoc, OkDoc} :
        LET f0 == NewFrame("refine_requirements", user_id, raw_document, None)
            refinement_chain == create_requirements_refinement_chain(user_id)
            g == get_or_create_memory(shared_memories, sessions, user_id)
        IN  IF ~Truthy(raw_document) \/ Len(Strip(raw_document)) < MinDocumentLength
            THEN /\ Step(s, Raise(f0, "ValidationException"))
                 /\ UNCHANGED <<shared_memories, sessions>>
            ELSE /\ shared_memories' = g.sm
                 /\ sessions' = g.ss
                 /\ Step(s, [f0 EXCEPT !.pc = "resolved", !.content = raw_document,
                                       !.chain_memory = refinement_chain.memory,
                                       !.shared_memory = g.ref])
    /\ UNCHANGED <<generated_projects, zipvars, fnvars>>

\* lines 29-43
refine_requirements_placeholder(s) ==
    /\ At(s, "refine_requirements", "resolved")
    /\ LET f == frames[s]
           head == SubSeq(f.content, 1, Min({LabelPrefixLength, Len(f.content)}))
           turn == Turn(refine_requirements_text.label1_pre \o head \o refine_requirements_text.label1_post, refine_requirements_text.placeholder)
           combined_input == refine_requirements_text.combined1 \o f.content \o refine_requirements_text.combined2
       IN  /\ sessions' = [sessions EXCEPT ![f.shared_memory] =
                              save_context(@, turn[1].content, turn[2].content)]
           /\ Step(s, [f EXCEPT !.pc = "invoking",
                                !.combined_input = combined_input,
                                !.saved = @ \o turn])
    /\ UNCHANGED <<shared_memories, generated_projects, zipvars, fnvars>>

\* line 46 (and 63-65 when it raises)
refine_requirements_run(s) ==
    /\ At(s, "refine_requirements", "invoking")
    /\ \E out \in {UpstreamError} \cup RefinementCompletions :
        LET f == frames[s]
            g == [f EXCEPT !.invoked = Append(@, "requirements_refinement")]
        IN  IF out = UpstreamError
            THEN Step(s, Raise(g, "UpstreamError"))
            ELSE Step(s, [g EXCEPT !.pc = "responded", !.response = out])
    /\ UNCHANGED <<shared_memories, sessions, generated_projects, zipvars, fnvars>>

\* lines 48-59
refine_requirements_commit(s) ==
    /\ At(s, "refine_requirements", "responded")
    /\ LET f == frames[s]
           turn == Turn(refine_requirements_text.label2, f.response)
       IN  /\ sessions' = [sessions EXCEPT ![f.shared_memory] =
                              save_context(@, turn[1].content, turn[2].content)]
           /\ Step(s, [Return(f, Strip(f.response)) EXCEPT !.saved = @ \o turn])
    /\ UNCHANGED <<shared_memories, generated_projects, zipvars, fnvars>>

(***************************************************************************)
(* utils/helpers.py: find_code_in_memory and ContextGatherer.  A pattern   *)
(* is a list of tokens: a literal, \s+ ("s+"), \s* ("s*") or \w+ ("w+");   *)
(* the search ignores case, so patterns and text are compared in lower     *)
(* case.                                                                   *)
(***************************************************************************)
Lit(text) == [kind |-> "lit", text |-> text]

Rx(kind) == [kind |-> kind, text |-> <<>>]

code_patterns ==
    <<
      <<Lit(<<"d","e","f">>), Rx("s+"), Rx("w+"), Rx("s*"), Lit(<<"(">>)>>,
      <<Lit(<<"c","l","a","s","s">>), Rx("s+"), Rx("w+")>>,
      <<Lit(<<"i","m","p","o","r","t">>), Rx("s+"), Rx("w+")>>,
      <<Lit(<<"f","r","o","m">>), Rx("s+"), Rx("w+"), Rx("s+"), Lit(<<"i","m","p","o","r","t">>)>>,
      <<Lit(<<"f","u","n","c","t","i","o","n">>), Rx("s+"), Rx("w+"), Rx("s*"), Lit(<<"(">>)>>,
      <<Lit(<<"p","u","b","l","i","c">>), Rx("s+"), Lit(<<"c","l","a","s","s">>), Rx("s+"), Rx("w+")>>,
      <<Lit(<<"p","u","b","l","i","c">>), Rx("s+"), Lit(<<"s","t","a","t","i","c">>), Rx("s+"), Lit(<<"v","o","i","d">>), Rx("s+"), Lit(<<"m","a","i","n">>)>>,
      <<Lit(<<"#","i","n","c","l","u","d","e">>), Rx("s*"), Lit(<<"<">>)>>,
      <<Lit(<<"i","n","t">>), Rx("s+"), Lit(<<"m","a","i","n">>), Rx("s*"), Lit(<<"(">>)>>,
      <<Lit(<<"c","o","n","s","o","l","e",".","l","o","g">>), Rx("s*"), Lit(<<"(">>)>>,
      <<Lit(<<"s","y","s","t","e","m",".","o","u","t",".","p","r","i","n","t","l","n">>)>>,
      <<Lit(<<"p","r","i","n","t">>), Rx("s*"), Lit(<<"(">>)>>
    >>

WordChars ==
    {Lowers[k] : k \in 1..Len(Lowers)} \cup {Digits[k] : k \in 1..Len(Digits)} \cup {"_"}

\* the pattern matches the text from position pos on
RECURSIVE MatchFrom(_, _, _)
MatchFrom(pattern, text, pos) ==
    IF Len(pattern) = 0 THEN TRUE
    ELSE LET token == pattern[1]
             rest == Tail(pattern)
             Run(chars, least) ==
                \E n \in least..(Len(text) - pos + 1) :
                    /\ \A k \in pos..(pos + n - 1) : text[k] \in chars
                    /\ MatchFrom(rest, text, pos + n)
         IN  CASE token.kind = "lit" ->
                    /\ pos + Len(token.text) - 1 <= Len(text)
                    /\ SubSeq(text, pos, pos + Len(token.text) - 1) = token.text
                    /\ MatchFrom(rest, text, pos + Len(token.text))
               [] token.kind = "s+" -> Run(Whitespace, 1)
               [] token.kind = "s*" -> Run(Whitespace, 0)
               [] token.kind = "w+" -> Run(WordChars, 1)

\* any(re.search(pattern, content, re.IGNORECASE | re.MULTILINE) ...)
IsCodeShape(content) ==
    LET text == Lower(content)
    IN  \E p \in 1..Len(code_patterns) : \E pos \in 1..Len(text) :
            MatchFrom(code_patterns[p], text, pos)

RECURSIVE find_code_in_memory(_)
find_code_in_memory(memory_messages) ==
    IF Len(memory_messages) = 0 THEN None
    ELSE LET msg == memory_messages[Len(memory_messages)] IN
         IF msg.type = "ai" /\ IsCodeShape(Strip(msg.content))
             THEN Strip(msg.content)
             ELSE find_code_in_memory(DropLast(memory_messages, 1))

\* line 172: the number of messages taken; line 178: the length kept
ConversationLimit == 5

ConversationTextLimit == 200

\* lines 171-180: the newest messages first, long contents cut and marked
RECURSIVE RecentConversations(_, _)
RecentConversations(memory_messages, conversation_count) ==
    IF Len(memory_messages) = 0 \/ conversation_count >= ConversationLimit THEN <<>>
    ELSE LET msg == memory_messages[Len(memory_messages)]
             content == IF Len(msg.content) > ConversationTextLimit
                        THEN SubSeq(msg.content, 1, ConversationTextLimit) \o <<".", ".", ".">>
                        ELSE msg.content
         IN  <<[type |-> msg.type, content |-> content]>>
                \o RecentConversations(DropLast(memory_messages, 1), conversation_count + 1)

gather_project_context(memory_messages) ==
    [requirements  |-> find_jira_stories_in_memory(memory_messages),
     diagrams      |-> find_diagram_in_memory(memory_messages),
     code          |-> find_code_in_memory(memory_messages),
     conversations |-> RecentConversations(memory_messages, 0)]

\* the literals of format_context_for_llm
format_context_text ==
    [
     requirements |->
        <<"=","=","="," ","R","E","Q","U","I","R","E","M","E","N","T","S","/","U","S","E","R"," ","S","T","O","R","I","E","S"," ","=","=","=","\n">>,
     diagrams |->
        <<"=","=","="," ","S","Y","S","T","E","M"," ","D","I","A","G","R","A","M"," ","=","=","=","\n">>,
     code |->
        <<"=","=","="," ","E","X","I","S","T","I","N","G"," ","C","O","D","E"," ","=","=","=","\n">>,
     conversations |->
        <<"=","=","="," ","R","E","C","E","N","T"," ","C","O","N","V","E","R","S","A","T","I","O","N"," ","=","=","=","\n">>,
     none |->
        <<"N","o"," ","p","r","e","v","i","o","u","s"," ","c","o","n","t","e","x","t"," ","a","v","a","i","l","a","b","l","e",".">>
    ]

\* conv['type'].upper() for the message types of the memory
TypeUpper(type) ==
    IF type = "ai" THEN <<"A", "I">> ELSE <<"H", "U", "M", "A", "N">>

\* sep.join(parts)
RECURSIVE JoinWith(_, _)
JoinWith(parts, sep) ==
    IF Len(parts) = 0 THEN <<>>
    ELSE IF Len(parts) = 1 THEN parts[1]
    ELSE parts[1] \o sep \o JoinWith(Tail(parts), sep)

format_context_for_llm(context) ==
    LET conv_text ==
            JoinWith([i \in 1..Len(context.conversations) |->
                        <<"[">> \o TypeUpper(context.conversations[i].type)
                            \o <<"]", ":", " ">> \o context.conversations[i].content],
                     <<"\n">>)
        formatted_parts ==
            (IF Truthy(context.requirements)
                THEN <<format_context_text.requirements \o context.requirements>> ELSE <<>>)
            \o (IF Truthy(context.diagrams)
                THEN <<format_context_text.diagrams \o context.diagrams>> ELSE <<>>)
            \o (IF Truthy(context.code)
                THEN <<format_context_text.code \o context.code>> ELSE <<>>)
            \o (IF Len(context.conversations) > 0
                THEN <<format_context_text.conversations \o conv_text>> ELSE <<>>)
    IN  IF Len(formatted_parts) = 0 THEN format_context_text.none
        ELSE JoinWith(formatted_parts, <<"\n", "\n">>)

(***************************************************************************)
(* services/project_generation_service.py.  A model reply is kept as the   *)
(* JSON document it decodes to: json is "malformed" when json.loads        *)
(* rejects the cleaned text, else "object" with the decoded mapping.       *)
(***************************************************************************)
MalformedReply == [json |-> "malformed", data |-> <<>>]

JsonObject(data) == [json |-> "object", data |-> data]

\* dict.get(key, default)
Get(d, key, default) == IF key \in DOMAIN d THEN d[key] ELSE default

\* the Technology list with the entries that have no name left out
parse_technologies_named_only(llm_response) ==
    LET listed == SelectSeq(Get(llm_response.data, "technologies", <<>>),
                            LAMBDA tech_data : "name" \in DOMAIN tech_data)
    IN  [i \in 1..Len(listed) |->
            [name     |-> Get(listed[i], "name", <<>>),
             category |-> Get(listed[i], "category", Unknown),
             version  |-> Get(listed[i], "version", None)]]

\* the Technology list of a decoded reply
parse_technologies(llm_response) ==
    LET listed == Get(llm_response.data, "technologies", <<>>)
    IN  [i \in 1..Len(listed) |->
            [name     |-> Get(listed[i], "name", <<>>),
             category |-> Get(listed[i], "category", Unknown),
             version  |-> Get(listed[i], "version", None)]]

\* the ProjectFile list of a decoded reply
parse_project_files(llm_response) ==
    LET listed == Get(llm_response.data, "files", <<>>)
    IN  [i \in 1..Len(listed) |->
            [path     |-> Get(listed[i], "path", <<>>),
             content  |-> Get(listed[i], "content", <<>>),
             language |-> Get(listed[i], "language", TextLanguage)]]

\* str.split(sep) for a one-character separator
RECURSIVE SplitOn(_, _)
SplitOn(s, sep) ==
    IF \A i \in 1..Len(s) : s[i] # sep THEN <<s>>
    ELSE LET i == Min({j \in 1..Len(s) : s[j] = sep})
         IN  <<SubSeq(s, 1, i - 1)>> \o SplitOn(DropFirst(s, i), sep)

IsProperPrefix(p, q) == Len(p) < Len(q) /\ SubSeq(q, 1, Len(p)) = p

\* one file added under its whole path as a single name, without directories
AddFileToStructure_flat(structure, file) ==
    [p \in DOMAIN structure \cup {<<file.path>>} |->
        IF p = <<file.path>>
        THEN [type |-> "file", language |-> file.language, size |-> Len(file.content)]
        ELSE structure[p]]

\* one file added to the tree; the tree maps a path (list of parts) to
\* its node, and replacing a node drops what was below it
AddFileToStructure(structure, file) ==
    LET parts == SplitOn(file.path, "/")
        dirs == {SubSeq(parts, 1, n) : n \in 1..(Len(parts) - 1)}
        kept == {p \in DOMAIN structure : ~IsProperPrefix(parts, p)}
        leaf == [type |-> "file", language |-> file.language,
                 size |-> Len(file.content)]
    IN  [p \in kept \cup dirs \cup {parts} |->
            IF p = parts THEN leaf
            ELSE IF p \in DOMAIN structure THEN structure[p]
            ELSE [type |-> "dir", language |-> <<>>, size |-> 0]]

RECURSIVE create_project_structure(_)
create_project_structure(files) ==
    IF Len(files) = 0 THEN <<>>
    ELSE AddFileToStructure(create_project_structure(DropLast(files, 1)),
                            files[Len(files)])

\* a store that keeps the newest project only
store_project_newest_only(projects, project_id, technologies, files) ==
    [i \in {project_id} |->
        [project_id |-> project_id, technologies |-> technologies,
         files |-> files, root_structure |-> create_project_structure(files)]]

\* the registry after generated_projects[project_id] = project
store_project(projects, project_id, technologies, files) ==
    LET project == [project_id |-> project_id, technologies |-> technologies,
                    files |-> files,
                    root_structure |-> create_project_structure(files)]
    IN  [i \in DOMAIN projects \cup {project_id} |->
            IF i = project_id THEN project ELSE projects[i]]

\* ', '.join(tech.name for tech in technologies)
RECURSIVE JoinNames(_)
JoinNames(technologies) ==
    IF Len(technologies) = 0 THEN <<>>
    ELSE IF Len(technologies) = 1 THEN technologies[1].name
    ELSE technologies[1].name \o generate_project_code_text.separator \o JoinNames(Tail(technologies))

(***************************************************************************)
(* api/routes/code.py: generate_project_code                               *)
(***************************************************************************)
TechnologyReplies ==
    {MalformedReply,
     JsonObject([technologies |-> <<>>]),
     JsonObject([technologies |->
        <<[name |-> NextJs, category |-> Frontend, version |-> None],
          [name |-> FastApi]>>])}

ProjectReplies ==
    {MalformedReply,
     JsonObject([files |-> <<>>]),
     JsonObject([files |->
        <<[path |-> MainPyPath, content |-> MainPyContent, language |-> Python]>>])}

\* lines 26-34: a fresh project id (the request's number), the user's memory,
\* the context gathered from it
generate_project_code_begin(s) ==
    /\ StartGuard(s)
    /\ \E user_id \in Users :
        LET f0 == NewFrame("generate_project_code", user_id, None, PromptText)
            g == get_or_create_memory(shared_memories, sessions, user_id)
            context_data == gather_project_context(g.ss[g.ref].messages)
        IN  /\ shared_memories' = g.sm
            /\ sessions' = g.ss
            /\ Step(s, [f0 EXCEPT !.pc = "context", !.shared_memory = g.ref,
                                  !.project_id = s,
                                  !.context = format_context_for_llm(context_data)])
    /\ UNCHANGED <<generated_projects, zipvars, fnvars>>

\* stage 1 without the emptiness test of lines 51-52
generate_project_code_detect_lenient(s) ==
    /\ At(s, "generate_project_code", "context")
    /\ LET f == frames[s]
           technology_chain == create_technology_detection_chain(f.user)
           g == [f EXCEPT !.invoked = Append(@, technology_chain.name)]
       IN  \/ Step(s, Raise(g, "UpstreamError"))
           \/ \E tech_response \in TechnologyReplies :
                IF tech_response.json = "malformed"
                THEN Step(s, Raise(g, "ValidationException"))
                ELSE Step(s, [g EXCEPT !.pc = "detected", !.parsed = "some",
                                       !.technologies = parse_technologies(tech_response)])
    /\ UNCHANGED <<shared_memories, sessions, generated_projects, zipvars, fnvars>>

\* lines 38-54 (and 119-122 when something raises): stage 1
generate_project_code_detect(s) ==
    /\ At(s, "generate_project_code", "context")
    /\ LET f == frames[s]
           technology_chain == create_technology_detection_chain(f.user)
           g == [f EXCEPT !.invoked = Append(@, technology_chain.name)]
       IN  \/ Step(s, Raise(g, "UpstreamError"))
           \/ \E tech_response \in TechnologyReplies :
                LET technologies == parse_technologies(tech_response)
                IN  IF tech_response.json = "malformed"
                    THEN Step(s, Raise(g, "ValidationException"))
                    ELSE IF Len(technologies) = 0
                    THEN Step(s, Raise([g EXCEPT !.parsed = "empty"],
                                       "ValidationException"))
                    ELSE Step(s, [g EXCEPT !.pc = "detected", !.parsed = "some",
                                           !.technologies = technologies])
    /\ UNCHANGED <<shared_memories, sessions, generated_projects, zipvars, fnvars>>

\* stage 2 without the emptiness test of lines 88-89
generate_project_code_generate_unchecked(s) ==
    /\ At(s, "generate_project_code", "detected")
    /\ LET f == frames[s]
           project_chain == create_project_code_generation_chain(f.user)
           g == [f EXCEPT !.invoked = Append(@, project_chain.name),
                          !.full_input = [technologies |-> f.technologies,
                                          prompt |-> f.arg,
                                          context |-> f.context]]
       IN  \/ Step(s, Raise(g, "UpstreamError"))
           \/ \E code_response \in ProjectReplies :
                IF code_response.json = "malformed"
                THEN Step(s, Raise(g, "ValidationException"))
                ELSE Step(s, [g EXCEPT !.pc = "generated",
                                       !.files = parse_project_files(code_response)])
    /\ UNCHANGED <<shared_memories, sessions, generated_projects, zipvars, fnvars>>

\* lines 56-91 (and 119-122): stage 2
generate_project_code_generate(s) ==
    /\ At(s, "generate_project_code", "detected")
    /\ LET f == frames[s]
           project_chain == create_project_code_generation_chain(f.user)
           g == [f EXCEPT !.invoked = Append(@, project_chain.name),
                          !.full_input = [technologies |-> f.technologies,
                                          prompt |-> f.arg,
                                          context |-> f.context]]
       IN  \/ Step(s, Raise(g, "UpstreamError"))
           \/ \E code_response \in ProjectReplies :
                LET project_files == parse_project_files(code_response)
                IN  IF code_response.json = "malformed" \/ Len(project_files) = 0
                    THEN Step(s, Raise(g, "ValidationException"))
                    ELSE Step(s, [g EXCEPT !.pc = "generated",
                                           !.files = project_files])
    /\ UNCHANGED <<shared_memories, sessions, generated_projects, zipvars, fnvars>>

\* lines 93-117: register the project, write the summary turn, return
generate_project_code_store(s) ==
    /\ At(s, "generate_project_code", "generated")
    /\ LET f == frames[s]
           names == JoinNames(f.technologies)
           output == generate_project_code_text.output_pre \o Str(Len(f.files)) \o generate_project_code_text.output_mid \o names
           turn == Turn(generate_project_code_text.label_pre \o names, output)
       IN  /\ generated_projects' =
                store_project(generated_projects, f.project_id, f.technologies, f.files)
           /\ sessions' = [sessions EXCEPT ![f.shared_memory] =
                              save_context(@, turn[1].content, turn[2].content)]
           /\ Step(s, [Return(f, output) EXCEPT !.saved = @ \o turn])
    /\ UNCHANGED <<shared_memories, zipvars, fnvars>>

(***************************************************************************)
(* llm.py: generate_code, the code generation route of the single-file     *)
(* application.  llm.py keeps its own shared_memories dictionary, built    *)
(* like the one of MemoryService; SpecCode runs this route against it.     *)
(***************************************************************************)
\* llm.py lines 94-102
get_or_create_shared_memory(sm, ss, user_id) == get_or_create_memory(sm, ss, user_id)

\* lines 756-767: the scan of the memory, newest message first; a diagram
\* ends it, a stories turn is noted and the scan goes on
RECURSIVE ScanMemory(_, _)
ScanMemory(memory_messages, jira_stories_from_memory) ==
    IF Len(memory_messages) = 0
    THEN [diagram_code_from_memory |-> None,
          jira_stories_from_memory |-> jira_stories_from_memory]
    ELSE LET msg == memory_messages[Len(memory_messages)] IN
         IF msg.type = "ai" /\ IsDiagramShape(Strip(msg.content))
         THEN [diagram_code_from_memory |-> msg.content,
               jira_stories_from_memory |-> jira_stories_from_memory]
         ELSE ScanMemory(DropLast(memory_messages, 1),
                         IF msg.type = "ai" /\ IsJiraStoriesShape(msg.content)
                         THEN msg.content ELSE jira_stories_from_memory)

\* the choice of lines 770-781 with the stories of the memory ahead of its
\* diagram
content_for_llm_stories_first(diagram_code, jira_stories, found) ==
    IF Truthy(diagram_code)
    THEN [content |-> generate_code_text.diagram_pre \o diagram_code,
          source_type |-> generate_code_text.source_diagram]
    ELSE IF Truthy(found.jira_stories_from_memory)
    THEN [content |-> generate_code_text.stories_pre \o found.jira_stories_from_memory,
          source_type |-> generate_code_text.source_stories]
    ELSE IF Truthy(found.diagram_code_from_memory)
    THEN [content |-> generate_code_text.diagram_pre \o found.diagram_code_from_memory,
          source_type |-> generate_code_text.source_diagram]
    ELSE IF Truthy(jira_stories)
    THEN [content |-> generate_code_text.stories_pre \o jira_stories,
          source_type |-> generate_code_text.source_stories]
    ELSE [content |-> None, source_type |-> None]

\* lines 770-786: what the model is given; content is None when line 783
\* raises
content_for_llm(diagram_code, jira_stories, found) ==
    IF Truthy(diagram_code)
    THEN [content |-> generate_code_text.diagram_pre \o diagram_code,
          source_type |-> generate_code_text.source_diagram]
    ELSE IF Truthy(found.diagram_code_from_memory)
    THEN [content |-> generate_code_text.diagram_pre \o found.diagram_code_from_memory,
          source_type |-> generate_code_text.source_diagram]
    ELSE IF Truthy(jira_stories)
    THEN [content |-> generate_code_text.stories_pre \o jira_stories,
          source_type |-> generate_code_text.source_stories]
    ELSE IF Truthy(found.jira_stories_from_memory)
    THEN [content |-> generate_code_text.stories_pre \o found.jira_stories_from_memory,
          source_type |-> generate_code_text.source_stories]
    ELSE [content |-> None, source_type |-> None]

FencedCode == Fence \o Python \o <<"\n">> \o MainPyContent \o <<"\n">> \o Fence

CodeCompletions == {FencedCode}

ProgrammingLanguages == {Python, <<>>}

\* lines 738-794: the chain (bound to the user's memory), the scan, the
\* choice of the content, the language test
generate_code_begin(s) ==
    /\ StartGuard(s)
    /\ \E user_id \in Users, diagram_code \in {None, GanttBody},
          jira_stories \in {None, TwoStories},
          programming_language \in ProgrammingLanguages :
        LET f0 == [NewFrame("generate_code", user_id, diagram_code, programming_language)
                      EXCEPT !.jira_stories = jira_stories]
            g == get_or_create_shared_memory(shared_memories, sessions, user_id)
            found == ScanMemory(g.ss[g.ref].messages, None)
            chosen == content_for_llm(diagram_code, jira_stories, found)
            f1 == [f0 EXCEPT !.chain_memory = g.ref, !.shared_memory = g.ref]
        IN  /\ shared_memories' = g.sm
            /\ sessions' = g.ss
            /\ IF chosen.content = None
               THEN Step(s, Raise(f1, "HTTPException"))
               ELSE IF ~Truthy(programming_language)
               THEN Step(s, Raise([f1 EXCEPT !.content = chosen.content,
                                             !.source_type = chosen.source_type],
                                  "HTTPException"))
               ELSE Step(s, [f1 EXCEPT !.pc = "resolved",
                                       !.content = chosen.content,
                                       !.source_type = chosen.source_type])
    /\ UNCHANGED <<generated_projects, zipvars, fnvars>>

\* lines 797-803: the placeholder turn and the chain input
generate_code_placeholder(s) ==
    /\ At(s, "generate_code", "resolved")
    /\ LET f == frames[s]
           turn == Turn(generate_code_text.label1_pre \o f.arg
                            \o generate_code_text.label1_mid \o f.source_type,
                        generate_code_text.placeholder)
       IN  /\ sessions' = [sessions EXCEPT ![f.shared_memory] =
                              save_context(@, turn[1].content, turn[2].content)]
           /\ Step(s, [f EXCEPT !.pc = "invoking", !.saved = @ \o turn,
                                !.combined_input = generate_code_text.input_pre
                                    \o f.arg \o <<"\n">> \o f.content])
    /\ UNCHANGED <<shared_memories, generated_projects, zipvars, fnvars>>

\* line 806: the chain call; the chain saves its own turn when it succeeds,
\* and an exception of the call leaves the handler uncaught
generate_code_run(s) ==
    /\ At(s, "generate_code", "invoking")
    /\ LET f == [frames[s] EXCEPT !.invoked = Append(@, "generate_code")]
       IN  \/ /\ Step(s, Raise(f, "UpstreamError"))
              /\ UNCHANGED sessions
           \/ \E response \in CodeCompletions :
                LET turn == Turn(f.combined_input, response)
                IN  /\ sessions' = [sessions EXCEPT ![f.chain_memory] =
                                       save_context(@, turn[1].content, turn[2].content)]
                    /\ Step(s, [f EXCEPT !.pc = "responded", !.response = response,
                                         !.saved = @ \o turn])
    /\ UNCHANGED <<shared_memories, generated_projects, zipvars, fnvars>>

\* lines 809-837: the cleaning, the final turn, the answer
generate_code_commit(s) ==
    /\ At(s, "generate_code", "responded")
    /\ LET f == frames[s]
           clean_response == clean_code_response(f.response, f.arg)
           turn == Turn(generate_code_text.label2_pre \o f.arg
                            \o generate_code_text.label2_post, clean_response)
       IN  /\ sessions' = [sessions EXCEPT ![f.shared_memory] =
                              save_context(@, turn[1].content, turn[2].content)]
           /\ Step(s, [Return(f, clean_response) EXCEPT !.saved = @ \o turn])
    /\ UNCHANGED <<shared_memories, generated_projects, zipvars, fnvars>>

(***************************************************************************)
(* services/project_generation_service.py: the registry and the ZIP files  *)
(***************************************************************************)
get_project(projects, project_id) ==
    IF project_id \in DOMAIN projects THEN projects[project_id] ELSE NoProject

\* a dict without one key
WithoutKey(d, key) == [k \in DOMAIN d \ {key} |-> d[k]]

\* create_zip_file(project_id) for a stored project: a ZIP in a new temporary
\* directory (zip_path), recorded as the project's temporary file
create_zip_file(tf, zf, project_id, zip_path) ==
    [temp_files |-> [k \in DOMAIN tf \cup {project_id} |->
                        IF k = project_id THEN zip_path ELSE tf[k]],
     zip_files |-> [p \in DOMAIN zf \cup {zip_path} |->
                        IF p = zip_path THEN project_id ELSE zf[p]],
     zip_path |-> zip_path]

cleanup_temp_file(tf, zf, project_id) ==
    IF project_id \in DOMAIN tf
    THEN [temp_files |-> WithoutKey(tf, project_id),
          zip_files |-> WithoutKey(zf, tf[project_id])]
    ELSE [temp_files |-> tf, zip_files |-> zf]

(***************************************************************************)
(* api/routes/code.py: the routes on stored projects                       *)
(***************************************************************************)
\* the ids the requests name: the projects of the first two requests
RequestedIds == {1, 2}

RegistryTechnologies ==
    <<[name |-> NextJs, category |-> Frontend, version |-> None]>>

RegistryFileLists ==
    {<<[path |-> MainPyPath, content |-> MainPyContent, language |-> Python]>>,
     <<[path |-> PathAB, content |-> <<>>, language |-> TextLanguage],
       [path |-> PathACD, content |-> MainPyContent, language |-> Python]>>}

\* a project is stored under a fresh id (the request's number), as the last
\* steps of generate_project_code do
StoreProject(s) ==
    /\ StartGuard(s)
    /\ \E user_id \in {"u1"}, files \in RegistryFileLists :
        LET f0 == NewFrame("store_project", user_id, None, None)
            projects == store_project(generated_projects, s, RegistryTechnologies, files)
        IN  /\ generated_projects' = projects
            /\ Step(s, [Return(f0, None) EXCEPT !.project_id = s,
                            !.technologies = RegistryTechnologies, !.files = files,
                            !.project = projects[s]])
    /\ UNCHANGED <<shared_memories, sessions, zipvars, fnvars>>

\* lines 124-144
get_project_structure(s) ==
    /\ StartGuard(s)
    /\ \E user_id \in {"u1"}, project_id \in RequestedIds :
        LET f0 == [NewFrame("get_project_structure", user_id, None, None)
                        EXCEPT !.project_id = project_id]
            project == get_project(generated_projects, project_id)
        IN  IF project = NoProject
            THEN Step(s, Raise(f0, "ValidationException"))
            ELSE Step(s, [Return(f0, None) EXCEPT !.project = project,
                                                 !.count = Len(project.files)])
    /\ UNCHANGED <<shared_memories, sessions, generated_projects, zipvars, fnvars>>

\* lines 146-174
prepare_project_download(s) ==
    /\ StartGuard(s)
    /\ \E user_id \in {"u1"}, project_id \in RequestedIds :
        LET f0 == [NewFrame("prepare_project_download", user_id, None, None)
                        EXCEPT !.project_id = project_id]
            project == get_project(generated_projects, project_id)
            z == create_zip_file(temp_files, zip_files, project_id, s)
        IN  IF project = NoProject
            THEN /\ Step(s, Raise(f0, "ValidationException"))
                 /\ UNCHANGED zipvars
            ELSE /\ temp_files' = z.temp_files
                 /\ zip_files' = z.zip_files
                 /\ Step(s, [Return(f0, None) EXCEPT !.project = project,
                                                    !.zip_path = z.zip_path])
    /\ UNCHANGED <<shared_memories, sessions, generated_projects, fnvars>>

\* lines 176-204: the handler; the file is then sent while other requests run
download_project_zip(s) ==
    /\ StartGuard(s)
    /\ \E project_id \in RequestedIds :
        LET f0 == [NewFrame("download_project_zip", "nobody", None, None)
                        EXCEPT !.project_id = project_id]
            project == get_project(generated_projects, project_id)
            tracked == IF project_id \in DOMAIN temp_files
                       THEN temp_files[project_id] ELSE NoPath
            z == create_zip_file(temp_files, zip_files, project_id, s)
        IN  IF project = NoProject
            THEN /\ Step(s, [f0 EXCEPT !.pc = "done", !.raised = "HTTPException",
                                       !.exc = "HTTPException", !.status = 500])
                 /\ UNCHANGED zipvars
            ELSE IF tracked = NoPath \/ tracked \notin DOMAIN zip_files
            THEN /\ temp_files' = z.temp_files
                 /\ zip_files' = z.zip_files
                 /\ frames' = [frames EXCEPT ![s] =
                        [f0 EXCEPT !.pc = "sending", !.status = 200,
                                   !.project = project, !.zip_path = z.zip_path]]
                 /\ running' = 0
            ELSE /\ frames' = [frames EXCEPT ![s] =
                        [f0 EXCEPT !.pc = "sending", !.status = 200,
                                   !.project = project, !.zip_path = tracked]]
                 /\ running' = 0
                 /\ UNCHANGED zipvars
    /\ UNCHANGED <<shared_memories, sessions, generated_projects, fnvars>>

\* line 199: the background call of the response, after the file was sent
download_project_zip_background(s) ==
    /\ frames[s].op = "download_project_zip"
    /\ frames[s].pc = "sending"
    /\ running = 0
    /\ LET c == cleanup_temp_file(temp_files, zip_files, frames[s].project_id)
       IN  /\ temp_files' = c.temp_files
           /\ zip_files' = c.zip_files
    /\ frames' = [frames EXCEPT ![s].pc = "done"]
    /\ UNCHANGED <<shared_memories, sessions, generated_projects, running, fnvars>>

\* lines 206-228
delete_project(s) ==
    /\ StartGuard(s)
    /\ \E user_id \in {"u1"}, project_id \in RequestedIds :
        LET f0 == [NewFrame("delete_project", user_id, None, None)
                        EXCEPT !.project_id = project_id]
            project == get_project(generated_projects, project_id)
            c == cleanup_temp_file(temp_files, zip_files, project_id)
        IN  IF project = NoProject
            THEN /\ Step(s, Raise(f0, "ValidationException"))
                 /\ UNCHANGED <<generated_projects, zipvars>>
            ELSE /\ temp_files' = c.temp_files
                 /\ zip_files' = c.zip_files
                 /\ generated_projects' = WithoutKey(generated_projects, project_id)
                 /\ Step(s, [Return(f0, None) EXCEPT !.project = project])
    /\ UNCHANGED <<shared_memories, sessions, fnvars>>

(***************************************************************************)
(* Cleaner harness: raw completions assembled from a few pieces.           *)
(***************************************************************************)
DiagramBodies == {GraphBody, GanttBody}

Pieces ==
    {Fence, FenceMermaid, TagPy, <<"\n">>, <<" ">>, GraphBody, <<"D","i","a","g","r","a","m",":">>, <<"C","o","d","e",":">>}

PieceLists == UNION {[1..n -> Pieces] : n \in 0..MaxPieces}

Languages == {<<>>, TagPy}

InitClean ==
    /\ MainIdle(1)
    /\ fn_op = "raw"
    /\ \E ps \in PieceLists : fn_in = [raw |-> Concat(ps), language |-> <<>>]
    /\ fn_out = None
    /\ fn_out2 = None

CleanMermaid ==
    /\ fn_op = "raw"
    /\ fn_op' = "clean_mermaid_response"
    /\ fn_out' = clean_mermaid_response(fn_in.raw)
    /\ UNCHANGED <<fn_in, fn_out2>>
    /\ UNCHANGED mvars

CleanCode ==
    /\ fn_op = "raw"
    /\ \E language \in Languages :
           /\ fn_in' = [fn_in EXCEPT !.language = language]
           /\ fn_out' = clean_code_response(fn_in.raw, language)
    /\ fn_op' = "clean_code_response"
    /\ UNCHANGED fn_out2
    /\ UNCHANGED mvars

\* the caller feeds the cleaned text to the same cleaner once more
CleanMermaidAgain ==
    /\ fn_op = "clean_mermaid_response"
    /\ fn_op' = "clean_mermaid_response_twice"
    /\ fn_out2' = clean_mermaid_response(fn_out)
    /\ UNCHANGED <<fn_in, fn_out>>
    /\ UNCHANGED mvars

CleanCodeAgain ==
    /\ fn_op = "clean_code_response"
    /\ fn_op' = "clean_code_response_twice"
    /\ fn_out2' = clean_code_response(fn_out, fn_in.language)
    /\ UNCHANGED <<fn_in, fn_out>>
    /\ UNCHANGED mvars

NextClean ==
    \/ CleanMermaid
    \/ CleanCode
    \/ CleanMermaidAgain
    \/ CleanCodeAgain

SpecClean == InitClean /\ [][NextClean]_vars

(***************************************************************************)
(* Finder harness: memories are built the way save_context builds them,    *)
(* one human message and one AI message per turn.                          *)
(***************************************************************************)
FindInputs == {modify_diagram_text.label2, GraphBody}

FindOutputs == {StoriesText, GraphBody, SeqDiagramPadded, modify_diagram_text.placeholder}

FindTurns == FindInputs \X FindOutputs

RECURSIVE TurnsToMessages(_)
TurnsToMessages(turns) ==
    IF Len(turns) = 0 THEN <<>>
    ELSE <<HumanMessage(turns[1][1]), AIMessage(turns[1][2])>>
             \o TurnsToMessages(Tail(turns))

InitFind ==
    /\ MainIdle(1)
    /\ fn_op = "memory"
    /\ \E n \in 0..MaxFindTurns : \E turns \in [1..n -> FindTurns] :
           fn_in = [memory_messages |-> TurnsToMessages(turns)]
    /\ fn_out = None
    /\ fn_out2 = None

FindDiagram ==
    /\ fn_op = "memory"
    /\ fn_op' = "find_diagram_in_memory"
    /\ fn_out' = find_diagram_in_memory(fn_in.memory_messages)
    /\ UNCHANGED <<fn_in, fn_out2>>
    /\ UNCHANGED mvars

FindJiraStories ==
    /\ fn_op = "memory"
    /\ fn_op' = "find_jira_stories_in_memory"
    /\ fn_out' = find_jira_stories_in_memory(fn_in.memory_messages)
    /\ UNCHANGED <<fn_in, fn_out2>>
    /\ UNCHANGED mvars

NextFind ==
    \/ FindDiagram
    \/ FindJiraStories

SpecFind == InitFind /\ [][NextFind]_vars

(***************************************************************************)
(* Project harness: decoded technology replies and parsed file lists.      *)
(***************************************************************************)
TechnologyEntries ==
    {[name |-> NextJs, category |-> Frontend],
     [name |-> MongoDb, category |-> Database],
     [name |-> NextJs, category |-> Frontend, version |-> Version14],
     [name |-> FastApi],
     [category |-> Database]}

FilePaths == {PathAB, PathACD, PathA}

ProjectFiles ==
    {[path |-> p, content |-> c.content, language |-> c.language] :
        p \in FilePaths,
        c \in {[content |-> MainPyContent, language |-> Python],
               [content |-> <<>>, language |-> TextLanguage]}}

InitProject ==
    /\ MainIdle(1)
    /\ \/ /\ fn_op = "reply"
          /\ \E n \in 0..MaxEntries : \E listed \in [1..n -> TechnologyEntries] :
                fn_in = JsonObject([technologies |-> listed])
       \/ /\ fn_op = "files"
          /\ \E n \in 0..MaxFiles : \E files \in [1..n -> ProjectFiles] :
                fn_in = files
    /\ fn_out = None
    /\ fn_out2 = None

ParseTechnologies ==
    /\ fn_op = "reply"
    /\ fn_op' = "parse_technologies"
    /\ fn_out' = parse_technologies(fn_in)
    /\ UNCHANGED <<fn_in, fn_out2>>
    /\ UNCHANGED mvars

CreateProjectStructure ==
    /\ fn_op = "files"
    /\ fn_op' = "create_project_structure"
    /\ fn_out' = create_project_structure(fn_in)
    /\ UNCHANGED <<fn_in, fn_out2>>
    /\ UNCHANGED mvars

NextProject ==
    \/ ParseTechnologies
    \/ CreateProjectStructure

SpecProject == InitProject /\ [][NextProject]_vars

(***************************************************************************)
(* Context harness: memories with messages of the limit length and longer. *)
(***************************************************************************)
TextAtLimit == [i \in 1..ConversationTextLimit |-> "x"]

TextOverLimit == TextAtLimit \o <<"y">>

ContextInputs == {TextAtLimit, TextOverLimit}

ContextOutputs == {StoriesText, GraphBody, MainPyContent}

ContextTurns == ContextInputs \X ContextOutputs

InitContext ==
    /\ MainIdle(1)
    /\ fn_op = "memory"
    /\ \E n \in 0..MaxContextTurns : \E turns \in [1..n -> ContextTurns] :
           fn_in = [memory_messages |-> TurnsToMessages(turns)]
    /\ fn_out = None
    /\ fn_out2 = None

GatherProjectContext ==
    /\ fn_op = "memory"
    /\ fn_op' = "gather_project_context"
    /\ fn_out' = gather_project_context(fn_in.memory_messages)
    /\ UNCHANGED <<fn_in, fn_out2>>
    /\ UNCHANGED mvars

FormatContextForLlm ==
    /\ fn_op = "gather_project_context"
    /\ fn_op' = "format_context_for_llm"
    /\ fn_out2' = format_context_for_llm(fn_out)
    /\ UNCHANGED <<fn_in, fn_out>>
    /\ UNCHANGED mvars

NextContext ==
    \/ GatherProjectContext
    \/ FormatContextForLlm

SpecContext == InitContext /\ [][NextContext]_vars

(***************************************************************************)
(* The request state machine.                                              *)
(***************************************************************************)
Init ==
    /\ MainIdle(MaxRequests)
    /\ fn_op = "idle"
    /\ fn_in = None
    /\ fn_out = None
    /\ fn_out2 = None

Next ==
    \E s \in 1..MaxRequests :
        \/ generate_diagram_begin(s)
        \/ generate_diagram_placeholder(s)
        \/ generate_diagram_run(s)
        \/ generate_diagram_commit(s)
        \/ modify_diagram_begin(s)
        \/ modify_diagram_placeholder(s)
        \/ modify_diagram_run(s)
        \/ modify_diagram_commit(s)
        \/ modify_jira_stories_begin(s)
        \/ modify_jira_stories_placeholder(s)
        \/ modify_jira_stories_run(s)
        \/ modify_jira_stories_commit(s)
        \/ upload_stories_to_jira_begin(s)
        \/ upload_stories_to_jira_upload(s)
        \/ upload_stories_to_jira_commit(s)
        \/ refine_requirements_begin(s)
        \/ refine_requirements_placeholder(s)
        \/ refine_requirements_run(s)
        \/ refine_requirements_commit(s)
        \/ generate_project_code_begin(s)
        \/ generate_project_code_detect(s)
        \/ generate_project_code_generate(s)
        \/ generate_project_code_store(s)
        \/ logout(s)

Spec == Init /\ [][Next]_vars

(***************************************************************************)
(* The session state machine: the diagram routes and logout only, for     *)
(* longer runs of requests against one memory store.                       *)
(***************************************************************************)
InitSession ==
    /\ MainIdle(MaxSessionRequests)
    /\ fn_op = "idle"
    /\ fn_in = None
    /\ fn_out = None
    /\ fn_out2 = None

NextSession ==
    \E s \in 1..MaxSessionRequests :
        \/ generate_diagram_begin(s)
        \/ generate_diagram_placeholder(s)
        \/ generate_diagram_run(s)
        \/ generate_diagram_commit(s)
        \/ modify_diagram_begin(s)
        \/ modify_diagram_placeholder(s)
        \/ modify_diagram_run(s)
        \/ modify_diagram_commit(s)
        \/ logout(s)

SpecSession == InitSession /\ [][NextSession]_vars

(***************************************************************************)
(* The code generation route of llm.py, one request against a memory that  *)
(* earlier requests of the first user have filled.                         *)
(***************************************************************************)
CodeOutputs == {StoriesText, RevisedStories, GraphBody, SeqDiagramPadded}

CodeTurns == FindInputs \X CodeOutputs

InitCode ==
    /\ shared_memories = [u \in Users |-> IF u = "u1" THEN 1 ELSE NoSession]
    /\ \E n \in 0..MaxFindTurns : \E turns \in [1..n -> CodeTurns] :
           sessions = <<[ConversationBufferWindowMemory(memory_window_size)
                            EXCEPT !.messages = TurnsToMessages(turns)]>>
    /\ generated_projects = <<>>
    /\ temp_files = <<>>
    /\ zip_files = <<>>
    /\ frames = <<IdleFrame>>
    /\ running = 0
    /\ fn_op = "idle"
    /\ fn_in = None
    /\ fn_out = None
    /\ fn_out2 = None

NextCode ==
    \E s \in {1} :
        \/ generate_code_begin(s)
        \/ generate_code_placeholder(s)
        \/ generate_code_run(s)
        \/ generate_code_commit(s)

SpecCode == InitCode /\ [][NextCode]_vars

(***************************************************************************)
(* The stories route alone, with its requirement validation.               *)
(***************************************************************************)
InitStories ==
    /\ MainIdle(MaxStoriesRequests)
    /\ fn_op = "idle"
    /\ fn_in = None
    /\ fn_out = None
    /\ fn_out2 = None

NextStories ==
    \E s \in 1..MaxStoriesRequests :
        \/ generate_jira_stories_validate(s)
        \/ generate_jira_stories_placeholder(s)
        \/ generate_jira_stories_run(s)
        \/ generate_jira_stories_commit(s)

SpecStories == InitStories /\ [][NextStories]_vars

(***************************************************************************)
(* The project registry with its routes and the memory clear.              *)
(***************************************************************************)
InitRegistry ==
    /\ MainIdle(MaxRegistryRequests)
    /\ fn_op = "idle"
    /\ fn_in = None
    /\ fn_out = None
    /\ fn_out2 = None

NextRegistry ==
    \E s \in 1..MaxRegistryRequests :
        \/ StoreProject(s)
        \/ get_project_structure(s)
        \/ prepare_project_download(s)
        \/ download_project_zip(s)
        \/ download_project_zip_background(s)
        \/ delete_project(s)
        \/ logout(s)

SpecRegistry == InitRegistry /\ [][NextRegistry]_vars

(***************************************************************************)
(* Properties of the pure helpers.                                         *)
(***************************************************************************)

\* C3: falling back to memory with the Diagram classifier returns the
\* (trimmed) content of the newest AI message whose trimmed content starts
\* with a diagram keyword, nothing when there is none, and never the content
\* of a human message; for AI turns [stories, diagram1, diagram2] it returns
\* diagram2.
AiDiagramIdx(msgs) ==
    {i \in 1..Len(msgs) :
        /\ msgs[i].type = "ai"
        /\ \E kw \in DiagramKeywords : StartsWith(Strip(msgs[i].content), kw)}

AiContents(msgs) ==
    LET ai == {i \in 1..Len(msgs) : msgs[i].type = "ai"} IN
    [n \in 1..Cardinality(ai) |->
        msgs[CHOOSE i \in ai : Cardinality({j \in ai : j <= i}) = n].content]

C3_DiagramFallbackNewestAi ==
    fn_op = "find_diagram_in_memory" =>
        LET msgs == fn_in.memory_messages IN
        /\ AiDiagramIdx(msgs) = {} => fn_out = None
        /\ AiDiagramIdx(msgs) # {} =>
               fn_out = Strip(msgs[Max(AiDiagramIdx(msgs))].content)
        /\ AiContents(msgs) = <<StoriesText, GraphBody, SeqDiagramPadded>> =>
               fn_out = Strip(SeqDiagramPadded)

C3_Witness ==
    /\ fn_op = "find_diagram_in_memory"
    /\ AiContents(fn_in.memory_messages) = <<StoriesText, GraphBody, SeqDiagramPadded>>
    /\ fn_in.memory_messages[1] = HumanMessage(GraphBody)
    /\ fn_out = Strip(SeqDiagramPadded)

\* C4: cleaning an already cleaned text changes nothing, for the Mermaid
\* cleaner and the code cleaner (normalize(normalize(x)) = normalize(x)).
C4_NormalizeIdempotent ==
    fn_op \in {"clean_mermaid_response_twice", "clean_code_response_twice"} =>
        fn_out2 = fn_out

\* C5: a raw completion made of a fence opened with the tag mermaid, a
\* diagram body and the closing fence is cleaned to exactly the body.
Gaps == {<<>>, <<" ">>, <<"\n">>}

FencedMermaid(body) ==
    {lead \o FenceMermaid \o g1 \o body \o g2 \o Fence \o trail :
        <<lead, g1, g2, trail>> \in Gaps \X Gaps \X Gaps \X Gaps}

C5_FencedMermaidYieldsBody ==
    fn_op = "clean_mermaid_response" =>
        \A body \in DiagramBodies :
            fn_in.raw \in FencedMermaid(body) => fn_out = body

C5_Witness ==
    /\ fn_op = "clean_mermaid_response"
    /\ fn_in.raw = FenceMermaid \o <<"\n">> \o GraphBody \o <<"\n">> \o Fence
    /\ fn_out = GraphBody

\* the raw text is a fenced block around the body: the opening delimiter, a
\* language tag or none, the body and the closing delimiter, on several
\* lines or on one
FencedBlock(raw, tag, body) ==
    \E open \in {<<"\n">>, <<" ">>}, close \in {<<"\n">>, <<" ">>, <<>>} :
        raw = Fence \o tag \o open \o body \o close \o Fence

FenceTags == {<<>>, TagPy, <<"m","e","r","m","a","i","d">>}

\* C27: for a raw text that is a fenced block, with any language tag or
\* none, on several lines or on one, the Mermaid cleaner and the code cleaner
\* return the interior alone, without delimiters and without the tag.
C27_FencedBlockYieldsInterior ==
    (/\ fn_op \in {"clean_mermaid_response", "clean_code_response"}
     /\ \E tag \in FenceTags : FencedBlock(fn_in.raw, tag, GraphBody))
        => fn_out = GraphBody

(***************************************************************************)
(* Properties of the project service's pure functions.                     *)
(***************************************************************************)
\* C14: parse_technologies returns one Technology per entry of the reply's
\* technologies list, in the list's order, with the entry's name, category
\* and version; a missing name is the empty string, a missing category is
\* unknown, a missing version is absent; the entries Next.js/frontend and
\* MongoDB/database give exactly those two technologies.
C14_TechnologiesParsedInOrder ==
    fn_op = "parse_technologies" =>
        LET listed == fn_in.data.technologies
            Has(i, key) == key \in DOMAIN listed[i]
        IN  /\ Len(fn_out) = Len(listed)
            /\ \A i \in 1..Len(listed) :
                /\ fn_out[i].name = IF Has(i, "name") THEN listed[i].name ELSE <<>>
                /\ fn_out[i].category =
                        IF Has(i, "category") THEN listed[i].category ELSE Unknown
                /\ fn_out[i].version =
                        IF Has(i, "version") THEN listed[i].version ELSE None
            /\ listed = <<[name |-> NextJs, category |-> Frontend],
                          [name |-> MongoDb, category |-> Database]>>
                    => fn_out = <<[name |-> NextJs, category |-> Frontend,
                                   version |-> None],
                                  [name |-> MongoDb, category |-> Database,
                                   version |-> None]>>

\* a reply of three entries was parsed, one without a name, one without a
\* category and one with a version
C14_Witness ==
    /\ fn_op = "parse_technologies"
    /\ Len(fn_out) = MaxEntries
    /\ LET listed == fn_in.data.technologies
       IN  /\ \E i \in DOMAIN listed : "name" \notin DOMAIN listed[i]
           /\ \E i \in DOMAIN listed : "category" \notin DOMAIN listed[i]
           /\ \E i \in DOMAIN listed : "version" \in DOMAIN listed[i]

PathParts(file) == SplitOn(file.path, "/")

\* the non-empty proper prefixes of a path: its directories
Directories(parts) == {SubSeq(parts, 1, n) : n \in 1..(Len(parts) - 1)}

PrefixFree(files) ==
    \A i, j \in DOMAIN files : ~IsProperPrefix(PathParts(files[i]), PathParts(files[j]))

DistinctPaths(files) ==
    \A i, j \in DOMAIN files : i # j => files[i].path # files[j].path

\* the tree holds, for every file, its directories and a leaf with the
\* file's language and the length of its content, and nothing else
TreeOfFiles(structure, files) ==
    /\ \A i \in DOMAIN files :
        LET parts == PathParts(files[i])
        IN  /\ parts \in DOMAIN structure
            /\ structure[parts].type = "file"
            /\ structure[parts].language = files[i].language
            /\ structure[parts].size = Len(files[i].content)
            /\ \A d \in Directories(parts) :
                    d \in DOMAIN structure /\ structure[d].type = "dir"
    /\ DOMAIN structure =
            UNION {Directories(PathParts(files[i])) \cup {PathParts(files[i])} :
                        i \in DOMAIN files}

\* C15 as stated: for a file list in which no path is a proper prefix of
\* another, the tree holds for every file the chain of directories of its
\* path ending in a leaf with the file's language and size, and nothing else.
C15_TreeOfPrefixFreeList ==
    (fn_op = "create_project_structure" /\ PrefixFree(fn_in))
        => TreeOfFiles(fn_out, fn_in)

\* C15, amended: the same for a file list in which no path is a proper
\* prefix of another and no path occurs twice.
C15_TreeOfDistinctPrefixFreeList ==
    (fn_op = "create_project_structure" /\ PrefixFree(fn_in) /\ DistinctPaths(fn_in))
        => TreeOfFiles(fn_out, fn_in)

\* the tree of [a/b.txt, a/c/d.txt]: a with the leaf b.txt and the directory
\* c, c with the leaf d.txt
C15_Witness ==
    /\ fn_op = "create_project_structure"
    /\ Len(fn_in) = 2
    /\ fn_in[1].path = PathAB
    /\ fn_in[2].path = PathACD
    /\ DOMAIN fn_out = {<<PathA>>, <<PathA, <<"b",".","t","x","t">>>>,
                        <<PathA, <<"c">>>>,
                        <<PathA, <<"c">>, <<"d",".","t","x","t">>>>}
    /\ fn_out[<<PathA>>].type = "dir"
    /\ fn_out[<<PathA, <<"c">>>>].type = "dir"
    /\ fn_out[<<PathA, <<"c">>, <<"d",".","t","x","t">>>>].size = Len(fn_in[2].content)

\* C23: in the tree of a non-empty file list no path is a file and a
\* directory at once (a file node has nothing below it, every other node is
\* a directory), and every file of the list is a leaf of the tree, also when
\* one path of the list is a prefix of another.
C23_NoFileDirectoryCollision ==
    (fn_op = "create_project_structure" /\ Len(fn_in) > 0) =>
        /\ \A p, q \in DOMAIN fn_out :
                IsProperPrefix(p, q) => fn_out[p].type = "dir"
        /\ \A i \in DOMAIN fn_in :
                /\ PathParts(fn_in[i]) \in DOMAIN fn_out
                /\ fn_out[PathParts(fn_in[i])].type = "file"

(***************************************************************************)
(* Properties of the memory store.                                         *)
(***************************************************************************)
\* the memory objects a request holds (its chain's and its own)
Refs(f) == {f.chain_memory, f.shared_memory} \ {NoSession}

\* the messages of the session registered for a user
RegisteredMessages(u) ==
    IF shared_memories[u] = NoSession THEN <<>>
    ELSE sessions[shared_memories[u]].messages

\* the user's last logout request, 0 if there is none
LastLogout(u) ==
    Max({0} \cup {s \in Slots : frames[s].op = "logout" /\ frames[s].user = u})

LogoutBetween(u, s1, s2) ==
    \E t \in Slots : s1 < t /\ t < s2 /\ frames[t].op = "logout" /\ frames[t].user = u

\* what the user's requests from request s on appended, in request order
RECURSIVE SavedFrom(_, _)
SavedFrom(u, s) ==
    IF s > Len(frames) THEN <<>>
    ELSE (IF frames[s].user = u THEN frames[s].saved ELSE <<>>) \o SavedFrom(u, s + 1)

\* C1: a session's stored message list (the list the content finders scan)
\* never holds more than k turns, that is 2k messages, for its window size k.
C1_StoredTurnsWithinWindow ==
    \A i \in DOMAIN sessions :
        Len(sessions[i].messages) <= 2 * sessions[i].k

C6_Step ==
    \A u \in Users :
        /\ \A s \in Slots :
            (frames[s].pc = "idle" /\ frames'[s].op = "logout" /\ frames'[s].user = u)
                => /\ shared_memories'[u] = NoSession
                   /\ frames'[s].cleared \in {"True", "False"}
                   /\ frames'[s].cleared = "True" <=> shared_memories[u] # NoSession
        /\ (shared_memories[u] = NoSession /\ shared_memories'[u] # NoSession)
                => /\ shared_memories'[u] \notin DOMAIN sessions
                   /\ shared_memories'[u] \in DOMAIN sessions'
                   /\ sessions'[shared_memories'[u]].messages = <<>>

\* C6: a clear leaves the user without a session and reports True exactly
\* when the user had one; the next get-or-create for a user without a session
\* registers a new memory object that holds zero turns, whatever the cleared
\* session held.
C6_ClearThenFresh == [][C6_Step]_vars

\* a user's session held turns, a logout cleared it, and the user's next
\* request has just obtained its session, which is new and empty
C6_Witness ==
    \E s1, s2, s3 \in Slots :
        /\ s1 < s2 /\ s2 < s3
        /\ frames[s1].user = frames[s2].user /\ frames[s2].user = frames[s3].user
        /\ frames[s1].chain_memory # NoSession
        /\ sessions[frames[s1].chain_memory].messages # <<>>
        /\ frames[s2].op = "logout" /\ frames[s2].cleared = "True"
        /\ frames[s3].pc = "resolved"
        /\ frames[s3].chain_memory = shared_memories[frames[s3].user]
        /\ frames[s3].chain_memory # frames[s1].chain_memory
        /\ sessions[frames[s3].chain_memory].messages = <<>>

\* C7: between two clears every get-or-create of a user returns the same
\* memory object (a request's chain and the request itself hold the same one,
\* and so do consecutive requests), a request in flight holds the registered
\* object, and the store registers at most one object per user and never one
\* object for two users.
C7_GetOrCreateIdempotent ==
    /\ \A s1, s2 \in Slots :
        (/\ s1 <= s2
         /\ frames[s1].user = frames[s2].user
         /\ ~LogoutBetween(frames[s1].user, s1, s2))
            => Cardinality(Refs(frames[s1]) \cup Refs(frames[s2])) <= 1
    /\ \A s \in Slots :
        frames[s].pc \notin {"idle", "done"}
            => Refs(frames[s]) \subseteq {shared_memories[frames[s].user]}
    /\ \A u \in Users : shared_memories[u] \in {NoSession} \cup DOMAIN sessions
    /\ \A u, v \in Users :
        (u # v /\ shared_memories[u] # NoSession)
            => shared_memories[u] # shared_memories[v]

\* two finished requests of one user, no logout between them, worked on the
\* same memory object, which holds what both appended
C7_Witness ==
    \E s1, s2 \in Slots :
        /\ s1 < s2
        /\ frames[s1].user = frames[s2].user
        /\ frames[s1].status = 200 /\ frames[s2].status = 200
        /\ frames[s1].saved # <<>> /\ frames[s2].saved # <<>>
        /\ ~LogoutBetween(frames[s1].user, s1, s2)
        /\ frames[s1].shared_memory # NoSession
        /\ frames[s1].shared_memory = frames[s2].shared_memory
        /\ frames[s1].chain_memory = frames[s2].chain_memory
        /\ sessions[frames[s1].shared_memory].messages
               = frames[s1].saved \o frames[s2].saved

C8_NoLostTurn ==
    \A u \in Users : RegisteredMessages(u) = SavedFrom(u, LastLogout(u) + 1)

C8_AppendStep ==
    /\ \A s \in Slots :
        frames'[s] # frames[s] =>
            LET u == frames'[s].user
                new == SubSeq(frames'[s].saved, Len(frames[s].saved) + 1,
                              Len(frames'[s].saved))
            IN  /\ Refs(frames'[s]) \subseteq {shared_memories'[u]}
                /\ new # <<>> =>
                    /\ shared_memories'[u] # NoSession
                    /\ sessions'[shared_memories'[u]].messages
                           = RegisteredMessages(u) \o new
    /\ \A i \in DOMAIN sessions :
        /\ i \in DOMAIN sessions'
        /\ Len(sessions'[i].messages) >= Len(sessions[i].messages)
        /\ SubSeq(sessions'[i].messages, 1, Len(sessions[i].messages))
               = sessions[i].messages

\* C8: however the requests of one user are interleaved, every request works
\* on the session registered for the user (no second session), every turn a
\* request appends goes to the end of that session, no stored turn is ever
\* removed or rewritten, and the registered session holds exactly the turns
\* the user's requests since the last clear appended, in order.
C8_RaceFree == []C8_NoLostTurn /\ [][C8_AppendStep]_vars

\* two requests of one user have finished and the one session holds the
\* turns of both
C8_Witness ==
    \E s1, s2 \in Slots :
        /\ s1 < s2
        /\ frames[s1].user = frames[s2].user
        /\ frames[s1].pc = "done" /\ frames[s2].pc = "done"
        /\ frames[s1].op # "logout" /\ frames[s2].op # "logout"
        /\ frames[s1].saved # <<>> /\ frames[s2].saved # <<>>
        /\ frames[s1].op # frames[s2].op
        /\ RegisteredMessages(frames[s1].user) = frames[s1].saved \o frames[s2].saved

(***************************************************************************)
(* Properties of the route handlers.                                       *)
(***************************************************************************)
SingleSourceOps ==
    {"generate_diagram", "modify_diagram", "modify_jira_stories",
     "upload_stories_to_jira"}

\* the request has its content and has not failed
Resolved(f) ==
    \/ f.pc \in {"resolved", "invoking", "responded"}
    \/ f.pc = "done" /\ f.status = 200

\* the chain input the route builds when the content is the request's artifact
InputFromArtifact(f) ==
    CASE f.op = "generate_diagram" ->
            generate_diagram_text.combined1 \o f.artifact \o generate_diagram_text.combined2
                \o normalized_diagram_type(f.arg) \o <<"\n">>
      [] f.op = "modify_diagram" ->
            modify_diagram_text.combined1 \o f.artifact \o modify_diagram_text.combined2 \o f.arg \o CombinedQuoteEnd
      [] f.op = "modify_jira_stories" ->
            modify_jira_stories_text.combined1 \o f.artifact \o modify_jira_stories_text.combined2 \o f.arg \o CombinedQuoteEnd
      [] OTHER -> None

\* what the route would take from the user's memory
MemoryCandidate(f) ==
    CASE f.op \in {"generate_diagram", "upload_stories_to_jira"} ->
            find_jira_stories_in_memory(RegisteredMessages(f.user))
      [] f.op = "modify_diagram" ->
            find_diagram_in_memory(RegisteredMessages(f.user))
      [] f.op = "modify_jira_stories" ->
            LastAiContent(RegisteredMessages(f.user))
      [] OTHER -> None

\* C2: on the single-source routes a request that carries a non-empty
\* artifact works on exactly that text: the resolved content is the request
\* text, the chain input is built from it, and the Jira upload counts the
\* stories of it, whatever the user's memory holds.
C2_ExplicitArtifactUnchanged ==
    \A s \in Slots :
        LET f == frames[s]
        IN  (f.op \in SingleSourceOps /\ Truthy(f.artifact) /\ Resolved(f))
                => /\ f.content = f.artifact
                   /\ f.combined_input # None => f.combined_input = InputFromArtifact(f)
                   /\ (f.op = "upload_stories_to_jira" /\ f.pc \in {"responded", "done"})
                        => f.count = Len(parse_markdown_stories(f.artifact))

\* a request with an explicit artifact was resolved while the user's memory
\* held a different artifact of the kind the route looks for
C2_Witness ==
    \E s \in Slots :
        LET f == frames[s]
        IN  /\ f.op \in SingleSourceOps
            /\ Truthy(f.artifact)
            /\ f.pc = "resolved"
            /\ f.content = f.artifact
            /\ Truthy(MemoryCandidate(f))
            /\ MemoryCandidate(f) # f.artifact

ValidationFailures == {"ValidationException", "MemoryNotFoundException"}

\* C9: a request that failed validation (missing content, missing field)
\* ends with a client error, status 400, and only a failed model invocation
\* ends with the upstream-service error, status 500.
C9_ValidationIsClientError ==
    \A s \in Slots :
        LET f == frames[s]
        IN  (f.pc = "done" /\ f.raised # "none")
                => /\ f.raised \in ValidationFailures
                        => (f.status = 400 /\ f.exc # "AIServiceException")
                   /\ f.status = 500 => f.raised = "UpstreamError"

\* C10: a project request whose technology detection parsed to an empty list
\* ends with a ValidationException (status 400), has not invoked the
\* project-generation chain, and has registered no project.
C10_EmptyTechnologiesIsValidationError ==
    \A s \in Slots :
        LET f == frames[s]
        IN  (f.op = "generate_project_code" /\ f.pc = "done" /\ f.parsed = "empty")
                => /\ f.exc = "ValidationException"
                   /\ f.status = 400
                   /\ \A i \in 1..Len(f.invoked) : f.invoked[i] # "project_code_generation"
                   /\ f.project_id \notin DOMAIN generated_projects

(***************************************************************************)
(* Properties of the project pipeline and of code generation.              *)
(***************************************************************************)
ProjectRequests == {s \in Slots : frames[s].op = "generate_project_code"}

\* C11 (state part): every registered id is the id of a project request
\* whose two stages parsed to non-empty lists, registered with exactly those
\* lists, and a project request that failed has no entry.
C11_RegisteredOnlyParsed ==
    /\ \A id \in DOMAIN generated_projects :
            /\ id \in ProjectRequests
            /\ Len(frames[id].technologies) > 0
            /\ Len(frames[id].files) > 0
            /\ generated_projects[id].technologies = frames[id].technologies
            /\ generated_projects[id].files = frames[id].files
    /\ \A s \in ProjectRequests :
            (frames[s].pc = "done" /\ frames[s].raised # "none")
                => s \notin DOMAIN generated_projects

\* C11 (step part): a step in which a project request fails leaves the
\* registry exactly as it was, and the registry changes only by the store
\* step of a request that got through both stages.
C11_AbortKeepsRegistry ==
    /\ (\E s \in Slots : frames[s].raised = "none" /\ frames'[s].raised # "none")
            => generated_projects' = generated_projects
    /\ generated_projects' # generated_projects
            => \E s \in Slots : /\ frames[s].op = "generate_project_code"
                                /\ frames[s].pc = "generated"
                                /\ frames'[s].status = 200

\* C11: a failed or empty technology or file parsing aborts the pipeline with
\* the registry unchanged; an id is registered only after both stages parsed
\* to non-empty lists.
C11_RegistryOnlyAfterBothStages ==
    []C11_RegisteredOnlyParsed /\ [][C11_AbortKeepsRegistry]_vars

\* one project is registered and another request was aborted in stage 2,
\* after its technologies had been parsed
C11_Witness ==
    \E s, t \in ProjectRequests :
        /\ s \in DOMAIN generated_projects
        /\ frames[t].pc = "done"
        /\ frames[t].raised = "ValidationException"
        /\ Len(frames[t].technologies) > 0
        /\ t \notin DOMAIN generated_projects

CodeRequests == {s \in Slots : frames[s].op = "generate_code"}

\* the request has chosen its content and has not failed
CodeResolved(f) ==
    \/ f.pc \in {"resolved", "invoking", "responded"}
    \/ f.pc = "done" /\ f.status = 200

\* the user's memory as the request found it: without its own turns
BeforeRequest(f) ==
    LET messages == sessions[f.shared_memory].messages
    IN  SubSeq(messages, 1, Len(messages) - Len(f.saved))

AiDiagramAt(messages, i) ==
    messages[i].type = "ai" /\ IsDiagramShape(Strip(messages[i].content))

AiStoriesAt(messages, i) ==
    messages[i].type = "ai" /\ IsJiraStoriesShape(messages[i].content)

NothingExplicit(f) == ~Truthy(f.artifact) /\ ~Truthy(f.jira_stories)

\* C12: a code generation request without diagram and without stories, whose
\* memory holds an AI diagram turn and an AI stories turn in any order, gives
\* the model a diagram of the memory: its content is the diagram text and
\* the chain input is built from it.
C12_MemoryDiagramBeforeMemoryStories ==
    \A s \in CodeRequests :
        LET f == frames[s]
            messages == BeforeRequest(f)
        IN  (/\ CodeResolved(f)
             /\ NothingExplicit(f)
             /\ \E i \in DOMAIN messages : AiDiagramAt(messages, i)
             /\ \E j \in DOMAIN messages : AiStoriesAt(messages, j))
                => /\ \E i \in DOMAIN messages :
                        /\ AiDiagramAt(messages, i)
                        /\ f.content = generate_code_text.diagram_pre \o messages[i].content
                   /\ f.source_type = generate_code_text.source_diagram
                   /\ f.combined_input # None
                        => f.combined_input = generate_code_text.input_pre \o f.arg
                                                \o <<"\n">> \o f.content

\* the model was called with a diagram of the memory although a stories turn
\* is newer than every diagram turn
C12_Witness ==
    \E s \in CodeRequests :
        LET f == frames[s]
            messages == BeforeRequest(f)
        IN  /\ f.pc = "responded"
            /\ NothingExplicit(f)
            /\ f.source_type = generate_code_text.source_diagram
            /\ \E i, j \in DOMAIN messages :
                    /\ i < j
                    /\ AiDiagramAt(messages, i)
                    /\ AiStoriesAt(messages, j)
                    /\ \A k \in DOMAIN messages : k > j => ~AiDiagramAt(messages, k)

\* C13: a code generation request that carries non-empty Jira stories and no
\* diagram gives the model those stories, whatever the memory holds.
C13_ExplicitStoriesBeforeMemory ==
    \A s \in CodeRequests :
        LET f == frames[s]
        IN  (CodeResolved(f) /\ Truthy(f.jira_stories) /\ ~Truthy(f.artifact))
                => /\ f.content = generate_code_text.stories_pre \o f.jira_stories
                   /\ f.source_type = generate_code_text.source_stories

\* C19: a code generation request without diagram and without stories, whose
\* memory holds no AI diagram turn, gives the model the newest AI turn of
\* the memory that has the shape of Jira stories.
C19_NewestStoriesOfMemory ==
    \A s \in CodeRequests :
        LET f == frames[s]
            messages == BeforeRequest(f)
        IN  (/\ CodeResolved(f)
             /\ NothingExplicit(f)
             /\ \A i \in DOMAIN messages : ~AiDiagramAt(messages, i))
                => \E i \in DOMAIN messages :
                        /\ AiStoriesAt(messages, i)
                        /\ \A j \in DOMAIN messages : j > i => ~AiStoriesAt(messages, j)
                        /\ f.content = generate_code_text.stories_pre \o messages[i].content

(***************************************************************************)
(* Properties of the turns a request writes.                               *)
(***************************************************************************)
\* the routes that write a placeholder turn before they call the model
TurnOps ==
    {"generate_diagram", "modify_diagram", "modify_jira_stories",
     "refine_requirements"}

PlaceholderOf(op) ==
    CASE op = "generate_diagram" -> generate_diagram_text.placeholder
      [] op = "modify_diagram" -> modify_diagram_text.placeholder
      [] op = "modify_jira_stories" -> modify_jira_stories_text.placeholder
      [] op = "refine_requirements" -> refine_requirements_text.placeholder
      [] OTHER -> None

\* the newest message of the memory the request writes to
NewestMessage(f) ==
    LET messages == sessions[f.shared_memory].messages
    IN  messages[Len(messages)]

\* C16: a successful generation or modification request appends exactly two
\* turns: the placeholder turn, which is the newest turn of the memory while
\* the model call is in flight, and then the final turn, whose output is the
\* response returned to the caller.
C16_TwoTurnsPerSuccess ==
    \A s \in Slots :
        LET f == frames[s]
        IN  f.op \in TurnOps =>
                /\ f.pc = "invoking" => NewestMessage(f) = AIMessage(PlaceholderOf(f.op))
                /\ (f.pc = "done" /\ f.status = 200)
                        => /\ Len(f.saved) = 4
                           /\ f.saved[2] = AIMessage(PlaceholderOf(f.op))
                           /\ f.saved[4] = AIMessage(f.body)

\* C17 (state part): a request whose model call failed has written the
\* placeholder turn and nothing else, and that turn is in the memory
C17_OnlyPlaceholderWritten ==
    \A s \in Slots :
        LET f == frames[s]
        IN  (f.op \in TurnOps /\ f.pc = "done" /\ f.raised = "UpstreamError")
                => /\ f.status = 500
                   /\ Len(f.saved) = 2
                   /\ f.saved[2] = AIMessage(PlaceholderOf(f.op))
                   /\ \E i \in DOMAIN sessions[f.shared_memory].messages :
                        sessions[f.shared_memory].messages[i] = f.saved[2]

\* C17 (step part): the step in which the model call fails ends the request
\* and changes no memory: the placeholder stays the newest turn, nothing is
\* removed and nothing is appended
C17_FailureStep ==
    \A s \in Slots :
        (/\ frames[s].op \in TurnOps
         /\ frames[s].pc = "invoking"
         /\ frames'[s].raised # "none")
            => /\ frames'[s].pc = "done"
               /\ sessions' = sessions
               /\ shared_memories' = shared_memories
               /\ NewestMessage(frames[s]) = AIMessage(PlaceholderOf(frames[s].op))

\* C17: when the model call of a request fails after the placeholder turn
\* was written, the request ends in an error, the placeholder turn stays in
\* the memory, and no final and no compensating turn is appended.
C17_FailureKeepsPlaceholder ==
    []C17_OnlyPlaceholderWritten /\ [][C17_FailureStep]_vars

\* a diagram modification failed in its model call and its placeholder is
\* the newest turn of the user's memory
C17_Witness ==
    \E s \in Slots :
        LET f == frames[s]
        IN  /\ f.op = "modify_diagram"
            /\ f.pc = "done"
            /\ f.raised = "UpstreamError"
            /\ f.invoked = <<"modify_diagram">>
            /\ RegisteredMessages(f.user) # <<>>
            /\ NewestMessage(f) = AIMessage(modify_diagram_text.placeholder)

\* the shape test a route applies when it falls back to the memory
ShapeOf(op, content) ==
    IF op = "modify_diagram" THEN IsDiagramShape(Strip(content))
    ELSE IsJiraStoriesShape(content)

NoTurnPasses(op, messages) ==
    \A i \in DOMAIN messages :
        ~(messages[i].type = "ai" /\ ShapeOf(op, messages[i].content))

C18_ResolveStep ==
    \A s \in Slots :
        LET f == frames'[s]
        IN  (/\ frames[s].pc = "idle"
             /\ f.op \in SingleSourceOps
             /\ ~Truthy(f.artifact)
             /\ NoTurnPasses(f.op, RegisteredMessages(f.user)))
                => /\ f.pc = "done"
                   /\ f.raised \in ValidationFailures
                   /\ f.invoked = <<>>
                   /\ f.saved = <<>>
                   /\ \A i \in DOMAIN sessions : sessions'[i] = sessions[i]
                   /\ \A i \in DOMAIN sessions' \ DOMAIN sessions :
                        sessions'[i].messages = <<>>

\* C18: a request without an explicit artifact, for a user whose memory holds
\* no AI turn that passes the route's shape test, fails when it resolves its
\* input: no model is called and no turn is appended to the memory.
C18_MissingContentFailsEarly == [][C18_ResolveStep]_vars

\* C20: a stories modification without stories in the request works on the
\* newest AI turn of the user's memory that passes the JiraStories shape
\* test, never on a placeholder, a diagram or a code turn.
C20_FallbackIsNewestStoriesTurn ==
    \A s \in Slots :
        LET f == frames[s]
            messages == sessions[f.chain_memory].messages
        IN  (f.op = "modify_jira_stories" /\ f.pc = "resolved" /\ ~Truthy(f.artifact))
                => /\ IsJiraStoriesShape(f.content)
                   /\ \E i \in DOMAIN messages :
                        /\ AiStoriesAt(messages, i)
                        /\ \A j \in DOMAIN messages : j > i => ~AiStoriesAt(messages, j)
                        /\ f.content = messages[i].content

(***************************************************************************)
(* Properties of the context gatherer and of the project pipeline's order. *)
(***************************************************************************)
\* C22: the gathered context lists at most the 5 newest entries of the
\* memory, newest first, each with a text of at most 200 characters taken
\* from the start of the message; for an empty memory the formatted context
\* is the no-previous-context text.
C22_ContextIsBounded ==
    fn_op \in {"gather_project_context", "format_context_for_llm"} =>
        LET messages == fn_in.memory_messages
            conversations == fn_out.conversations
        IN  /\ Len(conversations) = Min({ConversationLimit, Len(messages)})
            /\ \A i \in DOMAIN conversations :
                LET msg == messages[Len(messages) - i + 1]
                    kept == Min({ConversationTextLimit, Len(msg.content)})
                IN  /\ conversations[i].type = msg.type
                    /\ Len(conversations[i].content) <= ConversationTextLimit
                    /\ SubSeq(conversations[i].content, 1, kept)
                            = SubSeq(msg.content, 1, kept)
            /\ (fn_op = "format_context_for_llm" /\ messages = <<>>)
                    => fn_out2 = format_context_text.none

PipelineChains == <<create_technology_detection_chain("u1").name,
                    create_project_code_generation_chain("u1").name>>

IsPrefixOf(p, q) == Len(p) <= Len(q) /\ SubSeq(q, 1, Len(p)) = p

\* what a project request has done when it stands before the given stage
PipelineProgress(f, calls, detected, generated, registered) ==
    /\ f.context # None
    /\ f.invoked = SubSeq(PipelineChains, 1, calls)
    /\ (Len(f.technologies) > 0) = detected
    /\ (calls = 2) => /\ f.full_input.technologies = f.technologies
                      /\ f.full_input.context = f.context
    /\ (Len(f.files) > 0) = generated
    /\ (f.project_id \in DOMAIN generated_projects) = registered
    /\ Len(f.saved) = IF registered THEN 2 ELSE 0

\* C21: a project request goes through context gathering, the technology
\* call, a non-empty technology parsing, the generation call with the parsed
\* technologies, a non-empty file parsing, the registration and one summary
\* turn in this order, and a request that failed at one step did none of the
\* later ones.
C21_PipelineOrder ==
    \A s \in ProjectRequests :
        LET f == frames[s]
        IN  /\ f.pc = "context" => PipelineProgress(f, 0, FALSE, FALSE, FALSE)
            /\ f.pc = "detected" => PipelineProgress(f, 1, TRUE, FALSE, FALSE)
            /\ f.pc = "generated" => PipelineProgress(f, 2, TRUE, TRUE, FALSE)
            /\ (f.pc = "done" /\ f.status = 200) =>
                    /\ PipelineProgress(f, 2, TRUE, TRUE, TRUE)
                    /\ generated_projects[f.project_id].technologies = f.technologies
                    /\ generated_projects[f.project_id].files = f.files
            /\ (f.pc = "done" /\ f.status # 200) =>
                    \/ PipelineProgress(f, 1, FALSE, FALSE, FALSE)
                    \/ PipelineProgress(f, 2, TRUE, FALSE, FALSE)

\* one project request went through every step and another one stopped
\* after the generation call
C21_Witness ==
    \E s, t \in ProjectRequests :
        /\ frames[s].pc = "done" /\ frames[s].status = 200
        /\ Len(frames[s].saved) = 2
        /\ frames[t].pc = "done" /\ frames[t].status # 200
        /\ Len(frames[t].invoked) = 2

\* a request stands in its model call: the placeholder is written and the
\* chain has not returned
Suspended(s) == frames[s].pc = "invoking"

\* the next request to arrive
Arriving(t) ==
    /\ frames[t].pc = "idle"
    /\ \A r \in Slots : r < t => frames[r].pc # "idle"

\* C24: requests of different users do not block each other: while a request
\* of one user stands in its model call, an arriving request of another user
\* can run (its first step, and so all its steps up to its completion, can
\* be taken before the model call returns).
C24_OtherUserNotBlocked ==
    \A s, t \in Slots :
        (Suspended(s) /\ Arriving(t)) =>
            ENABLED (/\ Next
                     /\ frames'[t].pc # "idle"
                     /\ frames'[t].user # frames[s].user
                     /\ frames'[s] = frames[s])

\* part occurs in text as a run of consecutive characters
Occurs(part, text) ==
    \E i \in 0..(Len(text) - Len(part)) : SubSeq(text, i + 1, i + Len(part)) = part

\* the session a user's requests work on: the registered memory object, and
\* the objects the user's requests in progress hold
SessionsOf(u) ==
    ({shared_memories[u]} \ {NoSession})
        \cup UNION {Refs(frames[s]) : s \in {t \in Slots : frames[t].user = u}}

\* C28 (step part): a step of a request of user A leaves the registration
\* and the stored messages of every other user as they were, and the content
\* the step takes from memory is in a message of A's own session.
C28_Step ==
    \A s \in Slots : frames'[s] # frames[s] =>
        LET a == frames'[s].user
        IN  /\ \A b \in Users \ {a} :
                /\ shared_memories'[b] = shared_memories[b]
                /\ \A i \in SessionsOf(b) :
                        i \in DOMAIN sessions' /\ sessions'[i] = sessions[i]
            /\ (/\ frames[s].pc = "idle"
                /\ frames'[s].op \in SingleSourceOps
                /\ ~Truthy(frames'[s].artifact)
                /\ Truthy(frames'[s].content))
                    => /\ shared_memories'[a] # NoSession
                       /\ \E i \in DOMAIN sessions'[shared_memories'[a]].messages :
                            Occurs(frames'[s].content,
                                   sessions'[shared_memories'[a]].messages[i].content)

\* C28 (state part): no memory object is shared by two users.
C28_NoSharedSession ==
    \A a, b \in Users : a # b => SessionsOf(a) \cap SessionsOf(b) = {}

\* C28: the sessions are isolated per user: whatever a request of user A
\* does (create, append, clear, succeed or fail), the session and the turns
\* of every other user stay unchanged, and A's content comes from A's turns.
C28_SessionsIsolated == []C28_NoSharedSession /\ [][C28_Step]_vars

\* user B has turns, and a request of user A took its content from A's own
\* memory and has appended turns of its own
C28_Witness ==
    \E s, t \in Slots :
        /\ frames[s].user # frames[t].user
        /\ frames[t].pc = "done" /\ frames[t].saved # <<>>
        /\ t < s
        /\ frames[s].op \in SingleSourceOps
        /\ ~Truthy(frames[s].artifact)
        /\ Truthy(frames[s].content)
        /\ frames[s].saved # <<>>

\* C26 (state part): no request has called a chain twice, and a request whose
\* model call failed has ended with that call as its last one.
C26_AtMostOnce ==
    \A s \in Slots :
        LET f == frames[s]
        IN  /\ \A i, j \in DOMAIN f.invoked : f.invoked[i] = f.invoked[j] => i = j
            /\ f.raised = "UpstreamError" => f.pc = "done" /\ Len(f.invoked) >= 1

\* C26 (step part): a step makes at most one model call, and a request that
\* has ended makes no further call.
C26_CallStep ==
    \A s \in Slots :
        /\ Len(frames'[s].invoked) <= Len(frames[s].invoked) + 1
        /\ frames[s].pc = "done" => frames'[s].invoked = frames[s].invoked

\* C26: no retries: a request calls each chain at most once, and a failed
\* call ends the request without a second call.
C26_NoRetries == []C26_AtMostOnce /\ [][C26_CallStep]_vars

\* a request ended with its only model call failed, and a project request
\* ended after one call of each of its two chains
C26_Witness ==
    \E s, t \in Slots :
        /\ frames[s].pc = "done" /\ frames[s].raised = "UpstreamError"
        /\ Len(frames[s].invoked) = 1
        /\ frames[t].pc = "done" /\ frames[t].status = 200
        /\ Len(frames[t].invoked) = 2

(***************************************************************************)
(* Properties of the stories route.                                        *)
(***************************************************************************)
StoriesRequests == {s \in Slots : frames[s].op = "generate_jira_stories"}

\* the requirement passes the tests made before the validation chain is asked
WellFormedRequirements ==
    {requirement \in Requirements :
        /\ Len(Strip(requirement)) >= MinRequirementLength
        /\ Len(requirement) <= MaxRequirementLength}

WellFormedRequirement(requirement) == requirement \in WellFormedRequirements

Called(f, chain) == \E i \in DOMAIN f.invoked : f.invoked[i] = chain

\* C29 (state part): a stories request whose validation gave anything but
\* the exact text true (the requirement is empty, too short or too long, or
\* the validation chain refused or failed) has ended with is_valid false,
\* without a call of the generation chain and without a turn; a request
\* goes on to the placeholder turn and the generation call only with a
\* well-formed requirement the validation chain answered true to.
C29_InvalidStopsEarly ==
    \A s \in StoriesRequests :
        LET f == frames[s]
        IN  /\ ~WellFormedRequirement(f.arg) => f.requirements_are_valid # TrueText
            /\ f.requirements_are_valid # TrueText =>
                    /\ f.pc = "done" /\ f.is_valid = "False"
                    /\ ~Called(f, f.op)
                    /\ f.saved = <<>>
            /\ (f.saved # <<>> \/ Called(f, f.op) \/ f.is_valid = "True") =>
                    /\ WellFormedRequirement(f.arg)
                    /\ f.requirements_are_valid = TrueText
                    /\ Called(f, create_validation_requirements_chain(f.user).name)
                    /\ Len(f.saved) >= 2
                    /\ f.saved[2] = AIMessage(generate_jira_stories_text.placeholder)

\* C29 (step part): the step in which a request is found not valid leaves
\* every memory as it was.
C29_InvalidStep ==
    \A s \in Slots :
        (frames[s].pc = "idle" /\ frames'[s].is_valid = "False")
            => sessions' = sessions /\ shared_memories' = shared_memories

\* C29: only a validated requirement leads to the placeholder turn and the
\* generation call; any other validation result ends the request with
\* is_valid false, no generation call and no turn appended.
C29_OnlyValidatedGenerates == []C29_InvalidStopsEarly /\ [][C29_InvalidStep]_vars

\* a user has turns from a validated request, and a later request of the
\* same user, well-formed but answered with true and a line end, ended not
\* valid with the memory as it was
C29_Witness ==
    \E s, t \in StoriesRequests :
        /\ s < t
        /\ frames[s].user = frames[t].user
        /\ frames[s].pc = "done" /\ frames[s].is_valid = "True"
        /\ frames[t].pc = "done" /\ frames[t].is_valid = "False"
        /\ frames[t].requirements_are_valid = TrueText \o <<"\n">>
        /\ frames[t].arg = RequirementAtLimit
        /\ RegisteredMessages(frames[s].user) = frames[s].saved

(***************************************************************************)
(* Properties of the project registry and of the temporary ZIP files.      *)
(***************************************************************************)
LookupOps ==
    {"get_project_structure", "prepare_project_download", "download_project_zip",
     "delete_project"}

\* request t found the project of its id deleted by an earlier request
DeletedBefore(id, t) ==
    \E d \in Slots :
        /\ d < t
        /\ frames[d].op = "delete_project"
        /\ frames[d].project_id = id
        /\ frames[d].status = 200

\* request id stored a project before request t
StoredBefore(id, t) ==
    /\ id \in Slots
    /\ id < t
    /\ frames[id].op = "store_project"

\* C25 (state part): a request that looks a project up after it was stored
\* and before it was deleted finds the technologies, the files and the tree
\* that were stored, whatever other requests ran in between; a lookup of an
\* id that was never stored, or was deleted, ends with an error and no
\* project; the registry holds exactly the stored projects not deleted.
C25_LookupsAgree ==
    /\ \A t \in Slots :
        (frames[t].op \in LookupOps /\ frames[t].pc # "idle") =>
            LET id == frames[t].project_id
            IN  IF StoredBefore(id, t) /\ ~DeletedBefore(id, t)
                THEN /\ frames[t].status = 200
                     /\ frames[t].project.technologies = frames[id].technologies
                     /\ frames[t].project.files = frames[id].files
                     /\ frames[t].project.root_structure
                            = create_project_structure(frames[id].files)
                ELSE /\ frames[t].status # 200
                     /\ frames[t].project = NoProject
    /\ \A id \in Slots :
        (id \in DOMAIN generated_projects)
            = (frames[id].op = "store_project" /\ ~DeletedBefore(id, Len(frames) + 1))

\* C25 (step part): a step removes or changes an entry of the registry only
\* when it is the delete request for that id, and a delete request that
\* fails changes neither the registry nor the temporary files.
C25_Step ==
    /\ \A id \in DOMAIN generated_projects :
        \/ id \in DOMAIN generated_projects' /\ generated_projects'[id] = generated_projects[id]
        \/ \E s \in Slots : /\ frames[s].pc = "idle"
                            /\ frames'[s].op = "delete_project"
                            /\ frames'[s].project_id = id
                            /\ frames'[s].status = 200
    /\ \A s \in Slots :
        (frames[s].pc = "idle" /\ frames'[s].op = "delete_project" /\ frames'[s].status # 200)
            => /\ generated_projects' = generated_projects
               /\ temp_files' = temp_files
               /\ zip_files' = zip_files

\* C25: a registered project lives until it is deleted: every lookup returns
\* what was stored, through any other operation; after the delete lookups
\* report not found; deleting an unknown id is an error that changes nothing.
C25_ProjectLivesUntilDeleted == []C25_LookupsAgree /\ [][C25_Step]_vars

\* project 1 was stored, a ZIP was prepared for it, a delete of the unknown
\* id 2 failed, and a later lookup of project 1 found what was stored
C25_Witness ==
    /\ Len(frames) >= 4
    /\ frames[1].op = "store_project"
    /\ frames[2].op = "prepare_project_download" /\ frames[2].status = 200
    /\ frames[3].op = "delete_project" /\ frames[3].project_id = 2
    /\ frames[3].status = 500
    /\ frames[4].op = "get_project_structure" /\ frames[4].status = 200
    /\ frames[4].project = frames[1].project
    /\ frames[4].count = Len(frames[1].files)

\* C30: every temporary ZIP file on disk is the one recorded in temp_files
\* for its project, after any sequence of prepare, download, cleanup and
\* delete requests, so that cleanup or deletion removes it.
C30_EveryZipTracked ==
    \A path \in DOMAIN zip_files :
        /\ zip_files[path] \in DOMAIN temp_files
        /\ temp_files[zip_files[path]] = path

====
